---------------------------- MODULE Spec2Model ----------------------------
(***************************************************************************)
(* Model of the cookie-crawler presence probe                              *)
(* (src/src/crawlers/presence_crawler.py), of its consent crawler          *)
(* (src/src/crawlers/consent_crawler.py) and of the matcher that exports   *)
(* the store (src/src/database/extract_cookies.py).                        *)
(*                                                                         *)
(* Strings are sequences of tokens: "https://" \o "www." \o "a.com" is     *)
(* <<"https://", "www.", "a.com">>.  String concatenation is \o and the    *)
(* prefix tests of urlparse / re.sub look at the first token.              *)
(***************************************************************************)
EXTENDS Integers, Sequences, FiniteSets, TLC

VARIABLES
  \* ---- run_reachability_check (one probe) ----
  input_domain,   \* the argument
  prefix_list,    \* local prefix_list
  url_suffix,     \* local url_suffix
  idx,            \* position of the for loop in prefix_list (1-based)
  r,              \* local r: {} is None, {resp} a requests.Response
  final_url,      \* local final_url: {} is None, {url} a string
  ret,            \* what the call produced: nothing yet, a tuple, or an exception
  attempts,       \* history: the requests.get calls made, with what each gave
  ppc,            \* position of the probe
  \* ---- crawl_domains (the orchestrating pool) ----
  domains,        \* the argument
  batches,        \* the argument
  num_threads,    \* self.num_threads
  chunks,         \* local chunks
  batch_num,      \* enumerate(chunks, 1) position, 0 before the first batch
  task,           \* state of each task of the current batch in the pool
  processed,      \* local processed
  results,        \* local results: bucket name -> list of strings
  finished_domains, \* local finished_domains
  uncrawled,      \* results['uncrawled']: {} when the key is absent, {set} when set
  consumed,       \* history: per domain index, what the main loop recorded for it
  cpc,            \* position of crawl_domains
  files,          \* save_results: file name -> lines written, <<>> before it ran
  \* ---- ConsentCrawler.crawl_domain (one browser session) ----
  domain,         \* the argument, reassigned at line 256
  driver,         \* local driver: "None", "open", or "quit" once quit() was called
  page_source,    \* what driver.page_source holds: a set of pieces of text
  jar,            \* the cookies the browser holds
  declaration_elements, \* what the scraper's find_elements gave (history)
  cmp_type,       \* local cmp_type
  consent_data,   \* local consent_data
  cookies,        \* local cookies
  final_cookies,  \* local final_cookies
  buttons,        \* what the page answered for each selector (history)
  selector,       \* position of the for loop in accept_selectors (1-based)
  clicks,         \* history: how many times button.click() was called
  sleeps,         \* history: how many times time.sleep(2) ran
  phases,         \* history: the phases entered, in order
  faults,         \* history: the phases in which something raised
  result,         \* {} before the return, {CrawlResult} after
  spc,            \* position of crawl_domain
  \* ---- ConsentCrawler.crawl_domains and the sqlite store ----
  cd_domains,     \* the argument
  cd_i,           \* enumerate(domains, 1) position, 0 before the first
  stats,          \* local results (the summary statistics)
  db_crawl_results, \* table crawl_results, in rowid order
  db_cookies,     \* table cookies
  db_consent_data, \* table consent_data
  saves,          \* history: per save_crawl_result call, the result it was given
  delays,         \* history: how many times time.sleep(1) ran
  num_browsers,   \* self.num_browsers, the configured number of browsers
  cd_log,         \* history: the steps of crawl_domains, in order
  cdpc,           \* position of ConsentCrawler.crawl_domains
  \* ---- CookieExtractor ----
  include_unmatched, \* the argument of export_to_json
  clock,          \* what datetime.now() reads
  exports         \* history: per run of export_to_json, what it read and wrote

probe_vars == <<input_domain, prefix_list, url_suffix, idx, r, final_url, ret,
                attempts, ppc>>
crawl_vars == <<domains, batches, num_threads, chunks, batch_num, task,
                processed, results, finished_domains, uncrawled, consumed, cpc>>
session_locals == <<domain, driver, page_source, jar, declaration_elements,
                    cmp_type, consent_data, cookies, final_cookies, buttons,
                    selector, clicks, sleeps, phases, faults, spc>>
session_vars == <<session_locals, result>>
store_vars == <<db_crawl_results, db_cookies, db_consent_data, saves>>
consent_vars == <<cd_domains, cd_i, stats, delays, num_browsers, cd_log, cdpc>>
matcher_vars == <<include_unmatched, clock, exports>>
vars == <<probe_vars, crawl_vars, files, session_vars, store_vars, consent_vars,
          matcher_vars>>

\* what each operation leaves alone: the state of the other operations
outside_probe == <<crawl_vars, files, session_vars, store_vars, consent_vars,
                   matcher_vars>>
outside_crawl == <<probe_vars, session_vars, store_vars, consent_vars, matcher_vars>>
outside_session == <<probe_vars, crawl_vars, files, consent_vars, matcher_vars>>
outside_consent == <<probe_vars, crawl_vars, files, session_locals, matcher_vars>>
outside_matcher == <<probe_vars, crawl_vars, files, session_vars, consent_vars>>

-----------------------------------------------------------------------------
(* QuickCrawlResult *)
CRAWL_TIMEOUT == -1
OK == 0
CONNECT_FAIL == 1
HTTP_ERROR == 2
BOT == 3
NOCMP == 4
COOKIEBOT == 5
ONETRUST == 6
TERMLY == 7

check_cmp == TRUE

-----------------------------------------------------------------------------
(* Fingerprint patterns.  A page source is the set of fingerprint          *)
(* substrings that occur in it; pattern.search(psource) is membership.     *)
cb_base_pat == {"https://consent.cookiebot.com/", "https://consent.cookiebot.eu/"}
cb_script_name == {"cb-main.js"}
onetrust_patterns ==
  << "https://cdn-apac.onetrust.com",
     "https://cdn-ukwest.onetrust.com",
     "https://cmp-cdn.cookielaw.org",
     "https://cdn.cookielaw.org",
     "https://optanon.blob.core.windows.net",
     "https://cookie-cdn.cookiepro.com",
     "https://cookiepro.blob.core.windows.net" >>
termly_url_pattern == {"https://app.termly.io/"}

Markers == cb_base_pat \cup cb_script_name
           \cup {onetrust_patterns[i] : i \in 1..Len(onetrust_patterns)}
           \cup termly_url_pattern

\* Bound: the largest number of fingerprint substrings in one page source.
MaxMarkers == 2

Bodies == {b \in SUBSET Markers : Cardinality(b) <= MaxMarkers}

check_cookiebot_presence(resp) ==
  (resp.text \cap cb_base_pat # {}) \/ (resp.text \cap cb_script_name # {})

RECURSIVE AnyPatternFrom(_, _)
AnyPatternFrom(i, psource) ==
  IF i > Len(onetrust_patterns) THEN FALSE
  ELSE IF onetrust_patterns[i] \in psource THEN TRUE
  ELSE AnyPatternFrom(i + 1, psource)

check_onetrust_presence(resp) == AnyPatternFrom(1, resp.text)

check_termly_presence(resp) == resp.text \cap termly_url_pattern # {}

-----------------------------------------------------------------------------
(* What requests.get can give for one URL.                                 *)
FatalErrors == {"TooManyRedirects", "SSLError", "URLRequired", "MissingSchema"}
RetryErrors == {"ConnectionError", "Timeout"}
OtherErrors == {"InvalidURL"}
Statuses == {101, 200, 304, 403, 404, 406, 500, 999}
RedirectTargets == {<<>>, <<"https://", "cdn.", "a.com">>}

Responses == [kind : {"resp"}, status_code : Statuses,
              location : RedirectTargets, text : Bodies]
Exceptions == [kind : {"exc"}, exc : FatalErrors \cup RetryErrors \cup OtherErrors]
NetOutcomes == Responses \cup Exceptions

\* Mutant: only 2xx counts as a successful response.
ok_only_2xx(resp) == 200 <= resp.status_code /\ resp.status_code < 300

\* Response.ok: raise_for_status raises exactly for 400 <= status < 600.
ok(resp) == ~(400 <= resp.status_code /\ resp.status_code < 600)

\* Response.url: the URL of the final response, after redirects.
url(resp, completed_url) ==
  IF resp.location = <<>> THEN completed_url ELSE resp.location

-----------------------------------------------------------------------------
(* urlparse(input_domain).scheme and the prefix setup, lines 102-109.      *)
SchemeOf == [t \in {"http://", "https://", "HTTPS://", "ftp://"} |->
               CASE t = "http://" -> "http"
                 [] t = "https://" -> "https"
                 [] t = "HTTPS://" -> "https"
                 [] t = "ftp://" -> "ftp"]

HasSchemeToken(s) == s # <<>> /\ Head(s) \in DOMAIN SchemeOf

\* urlparse raises ValueError on a netloc with an unmatched bracket.
urlparse_raises(s) ==
  HasSchemeToken(s) /\ \E i \in 2..Len(s) : s[i] = "["

scheme(s) == IF HasSchemeToken(s) THEN SchemeOf[Head(s)] ELSE ""

\* re.sub(r"^www\.", "", s)
strip_www(s) == IF s # <<>> /\ Head(s) = "www." THEN Tail(s) ELSE s

IsSchemed(s) == scheme(s) \in {"http", "https"}

\* Mutant: the leading "www." is kept.
UrlSuffixKeepsWww(s) == s

UrlSuffix(s) == IF IsSchemed(s) THEN s ELSE strip_www(s)

\* Mutant: the three prefixes are tried whatever the input.
PrefixListAlwaysThree(s) ==
  << <<"https://", "www.">>, <<"https://">>, <<"http://">> >>

PrefixList(s) ==
  IF IsSchemed(s) THEN << <<>> >>
  ELSE << <<"https://", "www.">>, <<"https://">>, <<"http://">> >>

InputDomains ==
  { <<"a.com">>, <<"www.", "a.com">>, <<"WWW.", "a.com">>,
    <<"www.", "www.", "a.com">>, <<"[", "a.com">>, <<>>,
    <<"http://", "a.com">>, <<"https://", "www.", "a.com">>,
    <<"HTTPS://", "a.com">>, <<"ftp://", "a.com">>,
    <<"http://", "[", "a.com">> }

-----------------------------------------------------------------------------
(* One iteration of the prefix loop, lines 115-147, as a function of what  *)
(* requests.get gave.  The result says how the iteration leaves the loop:  *)
(* "return" (with the tuple returned), "continue", or "break".             *)
Return(u, code) == [kind |-> "return", url |-> u, code |-> code]
Raise(exc) == [kind |-> "raise", exc |-> exc]
Continue == [kind |-> "continue"]
Break(u, resp) == [kind |-> "break", final_url |-> u, r |-> resp]
Pending == [kind |-> "none"]

\* Mutant: a TLS/scheme-class error reports the URL tried, not the input.
OnExceptionReportsUrl(input, completed_url, exc) ==
  IF exc \in {"TooManyRedirects", "SSLError", "URLRequired", "MissingSchema"}
    THEN [kind |-> "return", url |-> completed_url, code |-> CONNECT_FAIL]
  ELSE IF exc \in {"ConnectionError", "Timeout"}
    THEN [kind |-> "continue"]
  ELSE [kind |-> "return", url |-> input, code |-> CONNECT_FAIL]

\* Mutant: a timeout ends the probe instead of moving to the next prefix.
OnExceptionTimeoutFatal(input, completed_url, exc) ==
  IF exc \in {"TooManyRedirects", "SSLError", "URLRequired", "MissingSchema", "Timeout"}
    THEN [kind |-> "return", url |-> input, code |-> CONNECT_FAIL]
  ELSE IF exc \in {"ConnectionError"}
    THEN [kind |-> "continue"]
  ELSE [kind |-> "return", url |-> input, code |-> CONNECT_FAIL]

\* lines 123-135: the except clauses, in their order
OnException(input, completed_url, exc) ==
  IF exc \in {"TooManyRedirects", "SSLError", "URLRequired", "MissingSchema"}
    THEN Return(input, CONNECT_FAIL)
  ELSE IF exc \in {"ConnectionError", "Timeout"}
    THEN Continue
  ELSE Return(input, CONNECT_FAIL)

\* Mutant: an error status reports r.url, the URL after redirects.
OnResponseReportsFinalUrl(completed_url, resp) ==
  IF ~ok(resp)
    THEN IF resp.status_code \in {403, 406}
           THEN Return(url(resp, completed_url), BOT)
           ELSE Return(url(resp, completed_url), HTTP_ERROR)
  ELSE Break(url(resp, completed_url), resp)

\* lines 137-147: requests.get returned a response (never None)
OnResponse(completed_url, resp) ==
  IF ~ok(resp)
    THEN IF resp.status_code \in {403, 406}
           THEN Return(completed_url, BOT)
           ELSE Return(completed_url, HTTP_ERROR)
  ELSE Break(url(resp, completed_url), resp)

LoopBody(input, completed_url, o) ==
  IF o.kind = "exc" THEN OnException(input, completed_url, o.exc)
  ELSE OnResponse(completed_url, o)

\* Mutant: OneTrust is tested before Cookiebot.
AfterLoopOneTrustFirst(input, fu, rr) ==
  IF fu # {} /\ check_cmp /\ rr # {}
    THEN LET resp == CHOOSE x \in rr : TRUE
             u == CHOOSE x \in fu : TRUE
         IN  IF check_onetrust_presence(resp) THEN Return(u, ONETRUST)
             ELSE IF check_cookiebot_presence(resp) THEN Return(u, COOKIEBOT)
             ELSE IF check_termly_presence(resp) THEN Return(u, TERMLY)
             ELSE Return(u, NOCMP)
  ELSE IF fu # {}
    THEN Return(CHOOSE x \in fu : TRUE, OK)
  ELSE Return(input, CONNECT_FAIL)

\* lines 149-163: after the loop; fu and rr are final_url and r as options
AfterLoop(input, fu, rr) ==
  IF fu # {} /\ check_cmp /\ rr # {}
    THEN LET resp == CHOOSE x \in rr : TRUE
             u == CHOOSE x \in fu : TRUE
         IN  IF check_cookiebot_presence(resp) THEN Return(u, COOKIEBOT)
             ELSE IF check_onetrust_presence(resp) THEN Return(u, ONETRUST)
             ELSE IF check_termly_presence(resp) THEN Return(u, TERMLY)
             ELSE Return(u, NOCMP)
  ELSE IF fu # {}
    THEN Return(CHOOSE x \in fu : TRUE, OK)
  ELSE Return(input, CONNECT_FAIL)

-----------------------------------------------------------------------------
(* run_reachability_check as a step machine.                               *)

\* lines 102-112
Resolve ==
  /\ ppc = "resolve"
  /\ IF urlparse_raises(input_domain)
       THEN /\ ret' = Raise("ValueError")
            /\ ppc' = "done"
            /\ UNCHANGED <<prefix_list, url_suffix, idx>>
       ELSE /\ url_suffix' = UrlSuffix(input_domain)
            /\ prefix_list' = PrefixList(input_domain)
            /\ idx' = 1
            /\ ppc' = "loop"
            /\ ret' = ret
  /\ UNCHANGED <<input_domain, r, final_url, attempts>>

\* lines 115-147: one iteration, requests.get giving o
Attempt ==
  /\ ppc = "loop"
  /\ idx <= Len(prefix_list)
  /\ \E o \in NetOutcomes :
       LET completed_url == prefix_list[idx] \o url_suffix
           step == LoopBody(input_domain, completed_url, o)
       IN  /\ attempts' = Append(attempts, [url |-> completed_url, got |-> o])
           /\ r' = IF o.kind = "resp" THEN {o} ELSE r
           /\ CASE step.kind = "return" ->
                     /\ ret' = step
                     /\ ppc' = "done"
                     /\ UNCHANGED <<idx, final_url>>
                [] step.kind = "continue" ->
                     /\ idx' = idx + 1
                     /\ UNCHANGED <<ret, ppc, final_url>>
                [] step.kind = "break" ->
                     /\ final_url' = {step.final_url}
                     /\ ppc' = "after"
                     /\ UNCHANGED <<ret, idx>>
  /\ UNCHANGED <<input_domain, prefix_list, url_suffix>>

\* the for loop ran out of prefixes
LoopExhausted ==
  /\ ppc = "loop"
  /\ idx > Len(prefix_list)
  /\ ppc' = "after"
  /\ UNCHANGED <<input_domain, prefix_list, url_suffix, idx, r, final_url,
                 ret, attempts>>

\* lines 149-163
Classify ==
  /\ ppc = "after"
  /\ ret' = AfterLoop(input_domain, final_url, r)
  /\ ppc' = "done"
  /\ UNCHANGED <<input_domain, prefix_list, url_suffix, idx, r, final_url,
                 attempts>>

ProbeNext ==
  \/ (Resolve /\ UNCHANGED outside_probe)
  \/ (Attempt /\ UNCHANGED outside_probe)
  \/ (LoopExhausted /\ UNCHANGED outside_probe)
  \/ (Classify /\ UNCHANGED outside_probe)

\* The same function without the steps: net[i] is what the i-th requests.get
\* gives.  This is what a pool worker computes for one task.
RECURSIVE LoopFrom(_, _, _)
LoopFrom(input, i, net) ==
  IF i > Len(PrefixList(input)) THEN AfterLoop(input, {}, {})
  ELSE LET step == LoopBody(input, PrefixList(input)[i] \o UrlSuffix(input), net[i])
       IN  CASE step.kind = "return" -> step
             [] step.kind = "continue" -> LoopFrom(input, i + 1, net)
             [] step.kind = "break" -> AfterLoop(input, {step.final_url}, {step.r})

run_reachability_check(input, net) ==
  IF urlparse_raises(input) THEN Raise("ValueError") ELSE LoopFrom(input, 1, net)

\* The probe of one domain, every requests.get answered by the network.
\* A call of run_reachability_check; crawl_domains is not running.
InitProbe ==
  /\ input_domain \in InputDomains
  /\ prefix_list = <<>>
  /\ url_suffix = <<>>
  /\ idx = 0
  /\ r = {}
  /\ final_url = {}
  /\ ret = Pending
  /\ attempts = <<>>
  /\ ppc = "resolve"
  /\ domains = <<>>
  /\ batches = 1
  /\ num_threads = 1
  /\ chunks = <<>>
  /\ batch_num = 0
  /\ task = <<>>
  /\ processed = 0
  /\ results = <<>>
  /\ finished_domains = {}
  /\ uncrawled = {}
  /\ consumed = <<>>
  /\ cpc = "idle"
  /\ files = <<>>
  /\ domain = <<>>
  /\ driver = "None"
  /\ page_source = {}
  /\ jar = <<>>
  /\ declaration_elements = {}
  /\ cmp_type = ""
  /\ consent_data = <<>>
  /\ cookies = <<>>
  /\ final_cookies = <<>>
  /\ buttons = <<>>
  /\ selector = 0
  /\ clicks = 0
  /\ sleeps = 0
  /\ phases = <<>>
  /\ faults = {}
  /\ result = {}
  /\ spc = "idle"
  /\ db_crawl_results = <<>>
  /\ db_cookies = <<>>
  /\ db_consent_data = <<>>
  /\ saves = <<>>
  /\ cd_domains = <<>>
  /\ cd_i = 0
  /\ stats = <<>>
  /\ delays = 0
  /\ num_browsers = 1
  /\ cd_log = <<>>
  /\ cdpc = "idle"
  /\ include_unmatched = FALSE
  /\ clock = 0
  /\ exports = <<>>

SpecProbe == InitProbe /\ [][ProbeNext]_vars

-----------------------------------------------------------------------------
(* crawl_domains: the pool, the batches and the result loop.               *)

\* Bounds of the crawl model.
MaxDomains == 3
MaxBatches == 2

ThreadCounts == {1, 2}

\* Distinct domain strings; the input lists are the slices of this sequence.
DomainPool ==
  << <<"a.com">>, <<"https://", "b.org">>, <<"www.", "c.net">>,
     <<"e.com">>, <<"http://", "[", "d.io">> >>

\* The input: an ordered, deduplicated sequence of domain strings.
DomainLists ==
  {SubSeq(DomainPool, i, j) :
     i \in 1..(Len(DomainPool) + 1), j \in 0..Len(DomainPool)}
  \cap UNION {[1..n -> {DomainPool[i] : i \in 1..Len(DomainPool)}] : n \in 0..MaxDomains}

BucketNames == {"cookiebot", "onetrust", "termly", "nocmp", "failed",
                "http_error", "bot", "timeout"}

\* What the network gives a pool worker: the same answer to every attempt.
WorkerOutcomes ==
  { [kind |-> "exc", exc |-> "ConnectionError"] }
  \cup [kind : {"resp"}, status_code : {200}, location : {<<>>},
        text : {{}, {"cb-main.js"}, {"https://cdn.cookielaw.org"},
                {"https://app.termly.io/"}}]
  \cup [kind : {"resp"}, status_code : {403, 404}, location : {<<>>}, text : {{}}]

\* What a worker can hand back for each domain: run_reachability_check's value.
ProbeReturnsOf ==
  [d \in {DomainPool[i] : i \in 1..Len(DomainPool)} |->
     {run_reachability_check(d, <<o, o, o>>) : o \in WorkerOutcomes}]

TimedOut == [kind |-> "timeout"]
Expired == [kind |-> "expired"]

Max(a, b) == IF a >= b THEN a ELSE b
Min(a, b) == IF a <= b THEN a ELSE b

\* Mutant: at most `b` chunks are made; what does not fit is dropped.
ChunksDropRemainder(ds, b) ==
  LET num_sites == Len(ds)
      chunksize == Max(1, num_sites \div b)
      starts == {i \in 0..(num_sites - 1) : i % chunksize = 0}
  IN  [k \in 1..Min(b, Cardinality(starts)) |->
         SubSeq(ds, (k - 1) * chunksize + 1, Min(k * chunksize, num_sites))]

\* Mutant: every slice ends one element later, so neighbours overlap.
ChunksOverlap(ds, b) ==
  LET num_sites == Len(ds)
      chunksize == Max(1, num_sites \div b)
      starts == {i \in 0..(num_sites - 1) : i % chunksize = 0}
  IN  [k \in 1..Cardinality(starts) |->
         SubSeq(ds, (k - 1) * chunksize + 1, Min(k * chunksize + 1, num_sites))]

\* lines 188-190
Chunks(ds, b) ==
  LET num_sites == Len(ds)
      chunksize == Max(1, num_sites \div b)
      starts == {i \in 0..(num_sites - 1) : i % chunksize = 0}
  IN  [k \in 1..Cardinality(starts) |->
         SubSeq(ds, (k - 1) * chunksize + 1, Min(k * chunksize, num_sites))]

\* lines 215-228
BucketOf(status_code) ==
  IF status_code = COOKIEBOT THEN "cookiebot"
  ELSE IF status_code = ONETRUST THEN "onetrust"
  ELSE IF status_code = TERMLY THEN "termly"
  ELSE IF status_code = NOCMP THEN "nocmp"
  ELSE IF status_code = BOT THEN "bot"
  ELSE IF status_code = HTTP_ERROR THEN "http_error"
  ELSE "failed"

\* lines 209, 210, 230: chunk[processed], processed counting from 0
ChunkAt(chunk, p) == chunk[p + 1]

\* Mutant: a timeout is booked on the first domain of the batch.
TimeoutEntryFirstOfBatch(chunk, p) == chunk[1]

\* line 209: what goes into results['timeout']
TimeoutEntry(chunk, p) == ChunkAt(chunk, p)

IndexOf(ds, d) == CHOOSE i \in 1..Len(ds) : ds[i] = d

\* The tasks of the batch in the pool, as indices into domains, in the order
\* pool.map submitted them.
Submitted ==
  IF batch_num = 0 THEN <<>>
  ELSE [i \in 1..Len(chunks[batch_num]) |-> IndexOf(domains, chunks[batch_num][i])]

\* Mutant: the iterator hands out whatever has finished, in any order.
DeliverableAsCompleted(ts, sub) ==
  {i \in 1..Len(sub) : ~ts[sub[i]].taken /\ ts[sub[i]].st = "done"}

\* line 199-200, 206: pool.map(...).result() hands out the tasks' results in the
\* order of submission; next(it) blocks until the next one in that order is there.
Deliverable(ts, sub) ==
  {i \in 1..Len(sub) :
     /\ ~ts[sub[i]].taken
     /\ ts[sub[i]].st = "done"
     /\ \A j \in 1..(i - 1) : ts[sub[j]].taken}

NotRecorded == [bucket |-> "none", entry |-> <<>>]

\* lines 173-195: set up, split into batches, open the pool
StartCrawl ==
  /\ cpc = "start"
  /\ chunks' = Chunks(domains, batches)
  /\ cpc' = "pool"
  /\ UNCHANGED <<domains, batches, num_threads, batch_num, task, processed,
                 results, finished_domains, uncrawled, consumed>>

\* lines 196-202: the next batch goes to the pool
SubmitBatch ==
  /\ cpc = "pool"
  /\ batch_num < Len(chunks)
  /\ batch_num' = batch_num + 1
  /\ LET chunk == chunks[batch_num + 1]
         new == {IndexOf(domains, chunk[i]) : i \in 1..Len(chunk)}
     IN  task' = [g \in 1..Len(domains) |->
                    IF g \in new THEN [task[g] EXCEPT !.st = "queued"] ELSE task[g]]
  /\ processed' = 0
  /\ cpc' = "next"
  /\ UNCHANGED <<domains, batches, num_threads, chunks, results,
                 finished_domains, uncrawled, consumed>>

\* a free worker takes the oldest queued task
TaskStart ==
  /\ cpc \in {"next", "appended"}
  /\ Cardinality({g \in 1..Len(domains) : task[g].st = "running"}) < num_threads
  /\ \E i \in 1..Len(Submitted) :
       /\ task[Submitted[i]].st = "queued"
       /\ \A j \in 1..(i - 1) : task[Submitted[j]].st # "queued"
       /\ task' = [task EXCEPT ![Submitted[i]].st = "running"]
  /\ UNCHANGED <<domains, batches, num_threads, chunks, batch_num, processed,
                 results, finished_domains, uncrawled, consumed, cpc>>

\* a worker finishes run_reachability_check(domain)
TaskFinish ==
  /\ cpc \in {"next", "appended"}
  /\ \E g \in 1..Len(domains) :
       /\ task[g].st = "running"
       /\ \E v \in ProbeReturnsOf[domains[g]] :
            task' = [task EXCEPT ![g].st = "done", ![g].out = v]
  /\ UNCHANGED <<domains, batches, num_threads, chunks, batch_num, processed,
                 results, finished_domains, uncrawled, consumed, cpc>>

\* a task runs longer than parse_timeout: the pool stops it (TimeoutError)
TaskTimeout ==
  /\ cpc \in {"next", "appended"}
  /\ \E g \in 1..Len(domains) :
       /\ task[g].st = "running"
       /\ task' = [task EXCEPT ![g].st = "done", ![g].out = TimedOut]
  /\ UNCHANGED <<domains, batches, num_threads, chunks, batch_num, processed,
                 results, finished_domains, uncrawled, consumed, cpc>>

\* a worker process dies while running a task (ProcessExpired)
TaskCrash ==
  /\ cpc \in {"next", "appended"}
  /\ \E g \in 1..Len(domains) :
       /\ task[g].st = "running"
       /\ task' = [task EXCEPT ![g].st = "done", ![g].out = Expired]
  /\ UNCHANGED <<domains, batches, num_threads, chunks, batch_num, processed,
                 results, finished_domains, uncrawled, consumed, cpc>>

\* lines 206-209 and 215-228: next(it) hands out a result and it is put in
\* its bucket; an exception other than timeout/crash leaves crawl_domains
NextResult ==
  /\ cpc = "next"
  /\ \E i \in Deliverable(task, Submitted) :
       LET chunk == chunks[batch_num]
           out == task[Submitted[i]].out
           g == IndexOf(domains, ChunkAt(chunk, processed))
       IN  /\ task' = [task EXCEPT ![Submitted[i]].taken = TRUE]
           /\ CASE out.kind \in {"timeout", "expired"} ->
                     /\ results' = [results EXCEPT !["timeout"] =
                                      Append(@, TimeoutEntry(chunk, processed))]
                     /\ consumed' = [consumed EXCEPT ![g] =
                                      [bucket |-> "timeout",
                                       entry |-> TimeoutEntry(chunk, processed)]]
                     /\ cpc' = "appended"
                [] out.kind = "return" ->
                     /\ results' = [results EXCEPT ![BucketOf(out.code)] =
                                      Append(@, out.url)]
                     /\ consumed' = [consumed EXCEPT ![g] =
                                      [bucket |-> BucketOf(out.code),
                                       entry |-> out.url]]
                     /\ cpc' = "appended"
                [] out.kind = "raise" ->
                     /\ cpc' = "raised"
                     /\ UNCHANGED <<results, consumed>>
  /\ UNCHANGED <<domains, batches, num_threads, chunks, batch_num, processed,
                 finished_domains, uncrawled>>

\* lines 210-212 and 230-231
MarkFinished ==
  /\ cpc = "appended"
  /\ finished_domains' = finished_domains \cup {ChunkAt(chunks[batch_num], processed)}
  /\ processed' = processed + 1
  /\ cpc' = "next"
  /\ UNCHANGED <<domains, batches, num_threads, chunks, batch_num, task,
                 results, uncrawled, consumed>>

\* lines 237-238: StopIteration ends the batch
BatchDone ==
  /\ cpc = "next"
  /\ \A i \in 1..Len(Submitted) : task[Submitted[i]].taken
  /\ cpc' = "pool"
  /\ UNCHANGED <<domains, batches, num_threads, chunks, batch_num, task,
                 processed, results, finished_domains, uncrawled, consumed>>

\* lines 245-248: all batches done, the pool closes, results are returned
ReturnResults ==
  /\ cpc = "pool"
  /\ batch_num = Len(chunks)
  /\ cpc' = "done"
  /\ UNCHANGED <<domains, batches, num_threads, chunks, batch_num, task,
                 processed, results, finished_domains, uncrawled, consumed>>

\* lines 240-248: KeyboardInterrupt anywhere inside the try block
Interrupt ==
  /\ cpc \in {"pool", "next", "appended"}
  /\ uncrawled' = {{domains[i] : i \in 1..Len(domains)} \ finished_domains}
  /\ cpc' = "done"
  /\ UNCHANGED <<domains, batches, num_threads, chunks, batch_num, task,
                 processed, results, finished_domains, consumed>>

\* lines 255-264
\* Mutant: the bot bucket is written to the file of the http_error bucket.
file_mapping_shared ==
  [cookiebot |-> "cookiebot_responses.txt", onetrust |-> "onetrust_responses.txt",
   termly |-> "termly_responses.txt", nocmp |-> "nocmp_responses.txt",
   failed |-> "failed_urls.txt", http_error |-> "http_responses.txt",
   bot |-> "http_responses.txt", timeout |-> "crawler_timeouts.txt"]

\* lines 255-264
file_mapping ==
  [cookiebot |-> "cookiebot_responses.txt", onetrust |-> "onetrust_responses.txt",
   termly |-> "termly_responses.txt", nocmp |-> "nocmp_responses.txt",
   failed |-> "failed_urls.txt", http_error |-> "http_responses.txt",
   bot |-> "bot_responses.txt", timeout |-> "crawler_timeouts.txt"]

\* the keys of results in the order the dict got them (lines 173-182, 243)
ResultOrder ==
  <<"cookiebot", "onetrust", "termly", "nocmp", "failed", "http_error", "bot",
    "timeout">>

\* str.capitalize() of a key of results
Capitalize(t) ==
  CASE t = "cookiebot" -> "Cookiebot"
    [] t = "onetrust" -> "Onetrust"
    [] t = "termly" -> "Termly"
    [] t = "nocmp" -> "Nocmp"
    [] t = "failed" -> "Failed"
    [] t = "http_error" -> "Http_error"
    [] t = "bot" -> "Bot"
    [] t = "timeout" -> "Timeout"
    [] t = "uncrawled" -> "Uncrawled"

\* lines 276-280: one line per key of results, with the length of its list
SummaryLines(res, unc) ==
  [k \in 1..Len(ResultOrder) |->
     [label |-> Capitalize(ResultOrder[k]), count |-> Len(res[ResultOrder[k]])]]
  \o (IF unc = {} THEN <<>>
      ELSE <<[label |-> Capitalize("uncrawled"),
              count |-> Cardinality(CHOOSE u \in unc : TRUE)]>>)

\* lines 266-272: the files are opened with 'w' in the mapping's order, so
\* the last bucket written to a name is what the file holds
LastBucketOf(f) ==
  LET ks == {k \in 1..Len(ResultOrder) : file_mapping[ResultOrder[k]] = f}
  IN  ResultOrder[CHOOSE k \in ks : \A j \in ks : j <= k]

\* lines 250-282: file name -> what was written to it
save_results(res, unc) ==
  [f \in {file_mapping[b] : b \in DOMAIN file_mapping} \cup {"crawl_summary.txt"} |->
     IF f = "crawl_summary.txt" THEN SummaryLines(res, unc) ELSE res[LastBucketOf(f)]]

\* the caller saves what crawl_domains returned (scripts/run_presence_crawl.py)
SaveResults ==
  /\ cpc = "done"
  /\ files' = save_results(results, uncrawled)
  /\ cpc' = "saved"
  /\ UNCHANGED <<domains, batches, num_threads, chunks, batch_num, task,
                 processed, results, finished_domains, uncrawled, consumed>>

Next ==
  \/ (StartCrawl /\ UNCHANGED <<outside_crawl, files>>)
  \/ (SubmitBatch /\ UNCHANGED <<outside_crawl, files>>)
  \/ (TaskStart /\ UNCHANGED <<outside_crawl, files>>)
  \/ (TaskFinish /\ UNCHANGED <<outside_crawl, files>>)
  \/ (TaskTimeout /\ UNCHANGED <<outside_crawl, files>>)
  \/ (TaskCrash /\ UNCHANGED <<outside_crawl, files>>)
  \/ (NextResult /\ UNCHANGED <<outside_crawl, files>>)
  \/ (MarkFinished /\ UNCHANGED <<outside_crawl, files>>)
  \/ (BatchDone /\ UNCHANGED <<outside_crawl, files>>)
  \/ (ReturnResults /\ UNCHANGED <<outside_crawl, files>>)
  \/ (Interrupt /\ UNCHANGED <<outside_crawl, files>>)
  \/ (SaveResults /\ UNCHANGED outside_crawl)

\* One call of crawl_domains.
\* A call of crawl_domains; the probes run inside the pool's workers.
Init ==
  /\ input_domain = <<>>
  /\ prefix_list = <<>>
  /\ url_suffix = <<>>
  /\ idx = 0
  /\ r = {}
  /\ final_url = {}
  /\ ret = Pending
  /\ attempts = <<>>
  /\ ppc = "idle"
  /\ domains \in DomainLists
  /\ batches \in 1..MaxBatches
  /\ num_threads \in ThreadCounts
  /\ chunks = <<>>
  /\ batch_num = 0
  /\ task = [i \in 1..Len(domains) |->
               [st |-> "new", out |-> Pending, taken |-> FALSE]]
  /\ processed = 0
  /\ results = [b \in BucketNames |-> <<>>]
  /\ finished_domains = {}
  /\ uncrawled = {}
  /\ consumed = [i \in 1..Len(domains) |-> NotRecorded]
  /\ cpc = "start"
  /\ files = <<>>
  /\ domain = <<>>
  /\ driver = "None"
  /\ page_source = {}
  /\ jar = <<>>
  /\ declaration_elements = {}
  /\ cmp_type = ""
  /\ consent_data = <<>>
  /\ cookies = <<>>
  /\ final_cookies = <<>>
  /\ buttons = <<>>
  /\ selector = 0
  /\ clicks = 0
  /\ sleeps = 0
  /\ phases = <<>>
  /\ faults = {}
  /\ result = {}
  /\ spc = "idle"
  /\ db_crawl_results = <<>>
  /\ db_cookies = <<>>
  /\ db_consent_data = <<>>
  /\ saves = <<>>
  /\ cd_domains = <<>>
  /\ cd_i = 0
  /\ stats = <<>>
  /\ delays = 0
  /\ num_browsers = 1
  /\ cd_log = <<>>
  /\ cdpc = "idle"
  /\ include_unmatched = FALSE
  /\ clock = 0
  /\ exports = <<>>

Spec == Init /\ [][Next]_vars

-----------------------------------------------------------------------------
(* ConsentCrawler (src/src/crawlers/consent_crawler.py): what the browser   *)
(* can answer, and the crawler's own functions.                             *)

\* What a page can hold: pieces of text as the site wrote them.
Pages ==
  { {"jquery"}, {"CookieBot"}, {"consent.cookiebot", "OneTrust"},
    {"optanon", "app.termly.io"}, {"cookielaw"}, {"CookiePro", "jquery"},
    {"app.termly.io"}, {"Termly"} }

\* str.lower() of one piece of text
Lower(t) ==
  CASE t = "CookieBot" -> "cookiebot"
    [] t = "OneTrust" -> "onetrust"
    [] t = "CookiePro" -> "cookiepro"
    [] t = "Termly" -> "termly"
    [] OTHER -> t

\* the needles of detect_cmp_type that occur inside a lowercase piece of text
SubstringsOf(t) ==
  CASE t = "consent.cookiebot" -> {"cookiebot", "consent.cookiebot"}
    [] t = "app.termly.io" -> {"termly", "app.termly.io"}
    [] OTHER -> {t}

\* needle in page_source
Contains(src, needle) == \E t \in src : needle \in SubstringsOf(t)

\* Mutant: OneTrust is looked for before Cookiebot.
detect_cmp_type_onetrust_first(src, raises) ==
  IF raises THEN "error"
  ELSE LET page == {Lower(t) : t \in src}
       IN  IF \E n \in {"onetrust", "cookielaw", "optanon", "cookiepro"} :
                Contains(page, n)
             THEN "onetrust"
           ELSE IF Contains(page, "cookiebot") \/ Contains(page, "consent.cookiebot")
             THEN "cookiebot"
           ELSE IF Contains(page, "termly") \/ Contains(page, "app.termly.io")
             THEN "termly"
           ELSE "unknown"

\* lines 147-169; raises: reading driver.page_source raised
detect_cmp_type(src, raises) ==
  IF raises THEN "error"
  ELSE LET page == {Lower(t) : t \in src}
       IN  IF Contains(page, "cookiebot") \/ Contains(page, "consent.cookiebot")
             THEN "cookiebot"
           ELSE IF \E n \in {"onetrust", "cookielaw", "optanon", "cookiepro"} :
                     Contains(page, n)
             THEN "onetrust"
           ELSE IF Contains(page, "termly") \/ Contains(page, "app.termly.io")
             THEN "termly"
           ELSE "unknown"

\* The browser's cookies, as driver.get_cookies() lists them.
CookieNames == <<"sid", "_ga">>
Jars == {SubSeq(CookieNames, 1, n) : n \in 0..Len(CookieNames)}
JarsFrom(j) == {k \in Jars : Len(k) >= Len(j)}

\* lines 171-179; raises: driver.get_cookies() raised
collect_cookies(j, raises) == IF raises THEN <<>> ELSE j

\* One element of a cookie declaration.  raises: reading it raises (a stale
\* element, or for OneTrust a missing child element); "" is a missing
\* attribute or an empty text.
DeclarationElements ==
  { [raises |-> TRUE, name |-> "", domain |-> "", category |-> "", text |-> ""],
    [raises |-> FALSE, name |-> "_ga", domain |-> ".a.com",
     category |-> "marketing", text |-> "Analytics"],
    [raises |-> FALSE, name |-> "", domain |-> "", category |-> "", text |-> ""] }
MaxElements == 2
RECURSIVE ElementLists(_)
ElementLists(n) ==
  IF n = 0 THEN {<<>>}
  ELSE ElementLists(n - 1) \cup
       {Append(es, e) : es \in ElementLists(n - 1), e \in DeclarationElements}

\* What driver.find_elements gives the scraper: it raises, or a list.
Lookups ==
  {[raises |-> TRUE, elements |-> <<>>]} \cup
  {[raises |-> FALSE, elements |-> es] : es \in ElementLists(MaxElements)}

\* python's  v or d
OrDefault(v, d) == IF v = "" THEN d ELSE v

\* lines 190-201
CookiebotDeclaration(e) ==
  [name |-> OrDefault(e.name, "unknown"),
   domain |-> OrDefault(e.domain, "unknown"),
   category |-> OrDefault(e.category, "unknown"),
   purpose |-> OrDefault(e.text, "No description"),
   cmp |-> "cookiebot"]

\* Mutant: the OneTrust scraper signs its declarations "cookiebot".
OneTrustDeclarationSignedCookiebot(e) ==
  [name |-> e.name,
   domain |-> OrDefault(e.domain, "unknown"),
   category |-> e.category,
   purpose |-> e.text,
   cmp |-> "cookiebot"]

\* lines 219-236: the child elements' texts are taken as they are
OneTrustDeclaration(e) ==
  [name |-> e.name,
   domain |-> OrDefault(e.domain, "unknown"),
   category |-> e.category,
   purpose |-> e.text,
   cmp |-> "onetrust"]

\* lines 188-203: the for loop with its try/except around each element
RECURSIVE CookiebotLoop(_, _)
CookiebotLoop(es, acc) ==
  IF es = <<>> THEN acc
  ELSE IF Head(es).raises THEN CookiebotLoop(Tail(es), acc)
  ELSE CookiebotLoop(Tail(es), Append(acc, CookiebotDeclaration(Head(es))))

\* lines 217-238
RECURSIVE OneTrustLoop(_, _)
OneTrustLoop(es, acc) ==
  IF es = <<>> THEN acc
  ELSE IF Head(es).raises THEN OneTrustLoop(Tail(es), acc)
  ELSE OneTrustLoop(Tail(es), Append(acc, OneTrustDeclaration(Head(es))))

\* Mutant: one element that raises costs the declarations gathered before it.
extract_consent_data_cookiebot_all_or_nothing(lookup) ==
  IF lookup.raises \/ \E k \in 1..Len(lookup.elements) : lookup.elements[k].raises
    THEN <<>>
    ELSE CookiebotLoop(lookup.elements, <<>>)

\* lines 181-208
extract_consent_data_cookiebot(lookup) ==
  IF lookup.raises THEN <<>> ELSE CookiebotLoop(lookup.elements, <<>>)

\* lines 210-243
extract_consent_data_onetrust(lookup) ==
  IF lookup.raises THEN <<>> ELSE OneTrustLoop(lookup.elements, <<>>)

\* What create_driver, driver.get and WebDriverWait.until can raise.
SessionExceptions == {"TimeoutException", "WebDriverException"}

\* The domains one session is asked for.
SessionDomains ==
  { <<"a.com">>, <<"http://", "c.net">> }

\* lines 255-256
WithScheme(d) ==
  IF d # <<>> /\ d[1] \in {"http://", "https://"} THEN d ELSE <<"https://">> \o d

CrawlResult(d, success, cmp, n, decls, err) ==
  [domain |-> d, success |-> success, cmp_type |-> cmp,
   cookies_collected |-> n, consent_data |-> decls, error_message |-> err]

\* Mutant: a CMP type of "error" is reported as a failed crawl.
ReturnSuccessUnlessDetectError(d, cmp, final, decls) ==
  CrawlResult(d, cmp # "error", cmp, Len(final), decls, {})

\* Mutant: the count reported is that of the snapshot taken before the
\* interaction.
ReturnSuccessCountsPre(d, cmp, final, decls) ==
  CrawlResult(d, TRUE, cmp, Len(cookies), decls, {})

\* lines 304-310; error_message keeps its default None, written {}
ReturnSuccess(d, cmp, final, decls) ==
  CrawlResult(d, TRUE, cmp, Len(final), decls, {})

\* Mutant: a failed session is reported with the CMP "error".
ExceptCmpError(d, exc) ==
  IF exc = "TimeoutException"
    THEN CrawlResult(d, FALSE, "error", 0, <<>>, {"Page load timeout"})
    ELSE CrawlResult(d, FALSE, "error", 0, <<>>, {exc})

\* Mutant: the handlers let the exception's text go.
ExceptNoMessage(d, exc) == CrawlResult(d, FALSE, "unknown", 0, <<>>, {})

\* lines 312-329: the two except clauses; str(e) is the exception's name
Except(d, exc) ==
  IF exc = "TimeoutException"
    THEN CrawlResult(d, FALSE, "unknown", 0, <<>>, {"Page load timeout"})
    ELSE CrawlResult(d, FALSE, "unknown", 0, <<>>, {exc})

\* Mutant: the finally block quits the browser only after a failure.
FinallyQuitsOnFailureOnly(drv, res) ==
  IF drv # "None" /\ ~res.success THEN "quit" ELSE drv

\* lines 330-335: driver after the finally block
Finally(drv, res) == IF drv # "None" THEN "quit" ELSE drv

\* lines 270-274: the scraper chosen by the detected type
ExtractFor(cmp, lookup) ==
  CASE cmp = "cookiebot" -> extract_consent_data_cookiebot(lookup)
    [] cmp = "onetrust" -> extract_consent_data_onetrust(lookup)
    [] OTHER -> <<>>

\* lines 282-286
accept_selectors ==
  << "[id*='accept']", "[class*='accept']", "[id*='agree']", "[class*='agree']",
     "[aria-label*='Accept']", "[aria-label*='Agree']" >>

\* What the page answers for each of the six selectors: find_element raises
\* ("absent"), the button is not displayed or not enabled ("hidden"),
\* click() raises, click() works.
ButtonConfigs ==
  { <<"absent", "absent", "absent", "absent", "absent", "absent">>,
    <<"clicked", "clicked", "absent", "absent", "absent", "absent">>,
    <<"hidden", "absent", "clicked", "absent", "absent", "absent">>,
    <<"click_raises", "clicked", "absent", "absent", "absent", "absent">>,
    <<"absent", "click_raises", "absent", "hidden", "absent", "click_raises">>,
    <<"absent", "absent", "absent", "absent", "absent", "clicked">>,
    <<"absent", "hidden", "absent", "absent", "hidden", "absent">> }

\* lines 288-297: the for loop from position k on, n clicks made so far;
\* the bare except sends every exception to the next selector
RECURSIVE InteractLoop(_, _, _)
InteractLoop(answers, k, n) ==
  IF k > Len(accept_selectors)
    THEN [selector |-> Len(accept_selectors), clicks |-> n, sleeps |-> 0]
  ELSE CASE answers[k] = "clicked" ->
              [selector |-> k, clicks |-> n + 1, sleeps |-> 1]
         [] answers[k] = "click_raises" -> InteractLoop(answers, k + 1, n + 1)
         [] OTHER -> InteractLoop(answers, k + 1, n)

\* Mutant: a control that is not displayed is clicked all the same.
InteractClicksHidden(answers) ==
  InteractLoop([k \in DOMAIN answers |->
                  IF answers[k] = "hidden" THEN "clicked" ELSE answers[k]], 1, 0)

\* lines 280-299: the loop from the first selector, no click made yet
Interact(answers) == InteractLoop(answers, 1, 0)

-----------------------------------------------------------------------------
(* The sqlite store (init_database, save_crawl_result).  A table is the     *)
(* sequence of its rows in rowid order; the timestamp column is left out.   *)

\* AUTOINCREMENT: the id of the next row of a table that never loses rows
NextId(tbl) == IF tbl = <<>> THEN 1 ELSE tbl[Len(tbl)].id + 1

\* lines 343-347: the crawl_results row of a result
CrawlRow(id, res) ==
  [id |-> id, domain |-> res.domain, success |-> res.success,
   cmp_type |-> res.cmp_type, cookies_collected |-> res.cookies_collected,
   error_message |-> res.error_message]

\* Mutant: a failed crawl is not stored.
InsertCrawlResultSuccessOnly(tbl, res) ==
  IF res.success THEN Append(tbl, CrawlRow(NextId(tbl), res)) ELSE tbl

\* lines 343-347: INSERT INTO crawl_results
InsertCrawlResult(tbl, res) == Append(tbl, CrawlRow(NextId(tbl), res))

\* Mutant: the declarations are filed under the id of the first record.
lastrowid_first(tbl) == IF tbl = <<>> THEN 0 ELSE tbl[1].id

\* line 349: cursor.lastrowid after the insert
lastrowid(tbl) == IF tbl = <<>> THEN 0 ELSE tbl[Len(tbl)].id

\* lines 352-358: INSERT INTO consent_data, one row per declaration
InsertConsentData(tbl, decls, crawl_id) ==
  tbl \o [k \in 1..Len(decls) |->
            [id |-> NextId(tbl) + k - 1, crawl_id |-> crawl_id,
             cookie_name |-> decls[k].name, cookie_domain |-> decls[k].domain,
             purpose_category |-> decls[k].category,
             purpose_description |-> decls[k].purpose,
             cmp_type |-> decls[k].cmp]]

\* lines 337-363; the cookies table is never written
save_crawl_result(res) ==
  LET inserted == InsertCrawlResult(db_crawl_results, res)
      crawl_id == lastrowid(inserted)
  IN  /\ db_crawl_results' = inserted
      /\ db_consent_data' = InsertConsentData(db_consent_data, res.consent_data, crawl_id)
      /\ db_cookies' = db_cookies
      /\ saves' = Append(saves, [result |-> res, crawl_id |-> crawl_id])

-----------------------------------------------------------------------------
(* crawl_domain, step by step: one browser session and the save that        *)
(* follows it (lines 383-384).                                              *)

\* an exception leaves the try block in phase ph while the local domain is
\* d: the except clause makes the return value and the finally block is next
Fails(ph, exc, d) ==
  /\ faults' = faults \cup {ph}
  /\ result' = {Except(d, exc)}
  /\ spc' = "finally"

\* line 252: the driver is created, or create_driver re-raises (line 145)
CreateDriver ==
  /\ spc = "create_driver"
  /\ phases' = Append(phases, "INIT")
  /\ \/ /\ driver' = "open"
        /\ spc' = "get"
        /\ UNCHANGED <<domain, faults, result>>
     \/ /\ UNCHANGED <<domain, driver>>
        /\ \E exc \in SessionExceptions : Fails("INIT", exc, domain)
  /\ UNCHANGED <<page_source, jar, declaration_elements, cmp_type, consent_data,
                 cookies, final_cookies, buttons, selector, clicks, sleeps>>

\* lines 255-258: the scheme is put in front and the page is asked for
Navigate ==
  /\ spc = "get"
  /\ phases' = Append(phases, "NAVIGATE")
  /\ domain' = WithScheme(domain)
  /\ \/ /\ page_source' \in Pages
        /\ jar' \in Jars
        /\ spc' = "wait"
        /\ UNCHANGED <<faults, result>>
     \/ /\ \E exc \in SessionExceptions : Fails("NAVIGATE", exc, WithScheme(domain))
        /\ UNCHANGED <<page_source, jar>>
  /\ UNCHANGED <<driver, declaration_elements, cmp_type, consent_data, cookies,
                 final_cookies, buttons, selector, clicks, sleeps>>

\* lines 261-263: document.readyState is complete within 15 s, or until()
\* raises TimeoutException, or execute_script raises
WaitLoad ==
  /\ spc = "wait"
  /\ phases' = Append(phases, "WAIT_LOAD")
  /\ \/ /\ spc' = "detect"
        /\ UNCHANGED <<faults, result>>
     \/ \E exc \in SessionExceptions : Fails("WAIT_LOAD", exc, domain)
  /\ UNCHANGED <<domain, driver, page_source, jar, declaration_elements, cmp_type,
                 consent_data, cookies, final_cookies, buttons, selector, clicks, sleeps>>

\* line 266
DetectCmp ==
  /\ spc = "detect"
  /\ phases' = Append(phases, "DETECT_CMP")
  /\ \E raises \in BOOLEAN :
       /\ cmp_type' = detect_cmp_type(page_source, raises)
       /\ faults' = IF raises THEN faults \cup {"DETECT_CMP"} ELSE faults
  /\ spc' = "extract"
  /\ UNCHANGED <<domain, driver, page_source, jar, declaration_elements,
                 consent_data, cookies, final_cookies, buttons, selector, clicks, sleeps,
                 result>>

\* an element raised, or find_elements did
LookupFaulty(lookup) ==
  lookup.raises \/ \E k \in 1..Len(lookup.elements) : lookup.elements[k].raises

\* lines 270-274: a scraper runs only for cookiebot and onetrust
ExtractDeclaredPurposes ==
  /\ spc = "extract"
  /\ phases' = Append(phases, "EXTRACT_DECLARED_PURPOSES")
  /\ IF cmp_type \in {"cookiebot", "onetrust"}
       THEN \E lookup \in Lookups :
              /\ declaration_elements' = {lookup}
              /\ consent_data' = ExtractFor(cmp_type, lookup)
              /\ faults' = IF LookupFaulty(lookup)
                             THEN faults \cup {"EXTRACT_DECLARED_PURPOSES"}
                             ELSE faults
       ELSE /\ consent_data' = ExtractFor(cmp_type, [raises |-> FALSE, elements |-> <<>>])
            /\ UNCHANGED <<declaration_elements, faults>>
  /\ spc' = "collect"
  /\ UNCHANGED <<domain, driver, page_source, jar, cmp_type, cookies,
                 final_cookies, buttons, selector, clicks, sleeps, result>>

\* line 277
CollectCookiesPre ==
  /\ spc = "collect"
  /\ phases' = Append(phases, "COLLECT_COOKIES_PRE")
  /\ \E raises \in BOOLEAN :
       /\ cookies' = collect_cookies(jar, raises)
       /\ faults' = IF raises THEN faults \cup {"COLLECT_COOKIES_PRE"} ELSE faults
  /\ spc' = "interact"
  /\ UNCHANGED <<domain, driver, page_source, jar, declaration_elements, cmp_type,
                 consent_data, final_cookies, buttons, selector, clicks, sleeps, result>>

\* lines 280-299: the whole loop over accept_selectors; a click that works
\* lets the site set further cookies
InteractConsent ==
  /\ spc = "interact"
  /\ phases' = Append(phases, "INTERACT_CONSENT")
  /\ \E answers \in ButtonConfigs :
       LET out == Interact(answers)
       IN  /\ buttons' = answers
           /\ selector' = out.selector
           /\ clicks' = out.clicks
           /\ sleeps' = out.sleeps
           /\ jar' \in IF out.sleeps > 0 THEN JarsFrom(jar) ELSE {jar}
           /\ faults' = IF out.clicks > out.sleeps
                          THEN faults \cup {"INTERACT_CONSENT"} ELSE faults
  /\ spc' = "collect_final"
  /\ UNCHANGED <<domain, driver, page_source, declaration_elements, cmp_type,
                 consent_data, cookies, final_cookies, result>>

\* lines 302-310: the second snapshot and the return statement
CollectCookiesPost ==
  /\ spc = "collect_final"
  /\ phases' = Append(phases, "COLLECT_COOKIES_POST")
  /\ \E raises \in BOOLEAN :
       /\ final_cookies' = collect_cookies(jar, raises)
       /\ faults' = IF raises THEN faults \cup {"COLLECT_COOKIES_POST"} ELSE faults
  /\ result' = {ReturnSuccess(domain, cmp_type, final_cookies', consent_data)}
  /\ spc' = "finally"
  /\ UNCHANGED <<domain, driver, page_source, jar, declaration_elements, cmp_type,
                 consent_data, cookies, buttons, selector, clicks, sleeps>>

\* lines 330-335: the finally block; what quit() raises is swallowed
Teardown ==
  /\ spc = "finally"
  /\ \E res \in result :
       /\ driver' = Finally(driver, res)
       /\ phases' = IF driver' = "quit" THEN Append(phases, "TEARDOWN") ELSE phases
  /\ spc' = "returned"
  /\ UNCHANGED <<domain, page_source, jar, declaration_elements, cmp_type,
                 consent_data, cookies, final_cookies, buttons, selector, clicks, sleeps,
                 faults, result>>

\* line 384 of crawl_domains: the result of the session is saved
SaveSession ==
  /\ spc = "returned"
  /\ \E res \in result : save_crawl_result(res)
  /\ spc' = "saved"
  /\ UNCHANGED <<domain, driver, page_source, jar, declaration_elements, cmp_type,
                 consent_data, cookies, final_cookies, buttons, selector, clicks, sleeps,
                 phases, faults, result>>

SessionNext ==
  \/ (CreateDriver /\ UNCHANGED <<outside_session, store_vars>>)
  \/ (Navigate /\ UNCHANGED <<outside_session, store_vars>>)
  \/ (WaitLoad /\ UNCHANGED <<outside_session, store_vars>>)
  \/ (DetectCmp /\ UNCHANGED <<outside_session, store_vars>>)
  \/ (ExtractDeclaredPurposes /\ UNCHANGED <<outside_session, store_vars>>)
  \/ (CollectCookiesPre /\ UNCHANGED <<outside_session, store_vars>>)
  \/ (InteractConsent /\ UNCHANGED <<outside_session, store_vars>>)
  \/ (CollectCookiesPost /\ UNCHANGED <<outside_session, store_vars>>)
  \/ (Teardown /\ UNCHANGED <<outside_session, store_vars>>)
  \/ (SaveSession /\ UNCHANGED outside_session)

\* One call of crawl_domain and the save of its result; the store is as
\* init_database left it.
InitSession ==
  /\ input_domain = <<>>
  /\ prefix_list = <<>>
  /\ url_suffix = <<>>
  /\ idx = 0
  /\ r = {}
  /\ final_url = {}
  /\ ret = Pending
  /\ attempts = <<>>
  /\ ppc = "idle"
  /\ domains = <<>>
  /\ batches = 1
  /\ num_threads = 1
  /\ chunks = <<>>
  /\ batch_num = 0
  /\ task = <<>>
  /\ processed = 0
  /\ results = <<>>
  /\ finished_domains = {}
  /\ uncrawled = {}
  /\ consumed = <<>>
  /\ cpc = "idle"
  /\ files = <<>>
  /\ domain \in SessionDomains
  /\ driver = "None"
  /\ page_source = {}
  /\ jar = <<>>
  /\ declaration_elements = {}
  /\ cmp_type = ""
  /\ consent_data = <<>>
  /\ cookies = <<>>
  /\ final_cookies = <<>>
  /\ buttons = <<>>
  /\ selector = 0
  /\ clicks = 0
  /\ sleeps = 0
  /\ phases = <<>>
  /\ faults = {}
  /\ result = {}
  /\ spc = "create_driver"
  /\ db_crawl_results = <<>>
  /\ db_cookies = <<>>
  /\ db_consent_data = <<>>
  /\ saves = <<>>
  /\ cd_domains = <<>>
  /\ cd_i = 0
  /\ stats = <<>>
  /\ delays = 0
  /\ num_browsers = 1
  /\ cd_log = <<>>
  /\ cdpc = "idle"
  /\ include_unmatched = FALSE
  /\ clock = 0
  /\ exports = <<>>

SpecSession == InitSession /\ [][SessionNext]_vars

-----------------------------------------------------------------------------
(* ConsentCrawler.crawl_domains: the sessions one after the other, each     *)
(* followed by its save.                                                    *)

\* What a site does to a whole session: what create_driver, driver.get and
\* the readiness wait give, the page, the declaration lookup, the cookies
\* before and after a click, the buttons.
Sites ==
  { [create |-> "WebDriverException", get |-> "ok", wait |-> "ok",
     page |-> {}, page_raises |-> FALSE,
     lookup |-> [raises |-> FALSE, elements |-> <<>>],
     jar |-> <<>>, jar_after |-> <<>>, final_raises |-> FALSE,
     answers |-> <<"absent", "absent", "absent", "absent", "absent", "absent">>],
    [create |-> "ok", get |-> "ok", wait |-> "TimeoutException",
     page |-> {}, page_raises |-> FALSE,
     lookup |-> [raises |-> FALSE, elements |-> <<>>],
     jar |-> <<>>, jar_after |-> <<>>, final_raises |-> FALSE,
     answers |-> <<"absent", "absent", "absent", "absent", "absent", "absent">>],
    [create |-> "ok", get |-> "ok", wait |-> "ok",
     page |-> {"consent.cookiebot", "OneTrust"}, page_raises |-> FALSE,
     lookup |-> [raises |-> FALSE, elements |->
                   << [raises |-> FALSE, name |-> "_ga", domain |-> ".a.com",
                       category |-> "marketing", text |-> "Analytics"],
                      [raises |-> TRUE, name |-> "", domain |-> "",
                       category |-> "", text |-> ""],
                      [raises |-> FALSE, name |-> "", domain |-> "",
                       category |-> "", text |-> ""] >>],
     jar |-> <<"sid">>, jar_after |-> <<"sid", "_ga">>, final_raises |-> FALSE,
     answers |-> <<"hidden", "absent", "clicked", "absent", "absent", "absent">>],
    [create |-> "ok", get |-> "ok", wait |-> "ok",
     page |-> {"optanon"}, page_raises |-> FALSE,
     lookup |-> [raises |-> FALSE, elements |->
                   << [raises |-> FALSE, name |-> "_ga", domain |-> ".a.com",
                       category |-> "marketing", text |-> "Analytics"] >>],
     jar |-> <<"sid">>, jar_after |-> <<"sid">>, final_raises |-> TRUE,
     answers |-> <<"absent", "absent", "absent", "absent", "absent", "absent">>],
    [create |-> "ok", get |-> "ok", wait |-> "ok",
     page |-> {"jquery"}, page_raises |-> TRUE,
     lookup |-> [raises |-> TRUE, elements |-> <<>>],
     jar |-> <<"sid">>, jar_after |-> <<"sid">>, final_raises |-> FALSE,
     answers |-> <<"click_raises", "absent", "absent", "absent", "absent", "absent">>] }

\* lines 245-335 in one piece: the CrawlResult of a session on a site
crawl_domain(d, site) ==
  IF site.create # "ok" THEN Except(d, site.create)
  ELSE IF site.get # "ok" THEN Except(WithScheme(d), site.get)
  ELSE IF site.wait # "ok" THEN Except(WithScheme(d), site.wait)
  ELSE LET cmp == detect_cmp_type(site.page, site.page_raises)
           out == Interact(site.answers)
           held == IF out.sleeps > 0 THEN site.jar_after ELSE site.jar
       IN  ReturnSuccess(WithScheme(d), cmp,
                         collect_cookies(held, site.final_raises),
                         ExtractFor(cmp, site.lookup))

\* lines 369-376
NewStats(n) ==
  [total_domains |-> n, successful_crawls |-> 0, failed_crawls |-> 0,
   cmp_types |-> <<>>, total_cookies |-> 0, domains_with_consent_data |-> 0]

\* Mutant: the count of a CMP starts again at 1 with every crawl.
CountCmpFromZero(counts, cmp) ==
  [c \in DOMAIN counts \cup {cmp} |-> IF c = cmp THEN 1 ELSE counts[c]]

\* line 395: results["cmp_types"][cmp] = results["cmp_types"].get(cmp, 0) + 1
CountCmp(counts, cmp) ==
  IF cmp \in DOMAIN counts THEN [counts EXCEPT ![cmp] = @ + 1]
  ELSE [c \in DOMAIN counts \cup {cmp} |-> IF c = cmp THEN 1 ELSE counts[c]]

\* lines 387-398
UpdateStats(st, res) ==
  IF res.success
    THEN [st EXCEPT !.successful_crawls = @ + 1,
                    !.total_cookies = @ + res.cookies_collected,
                    !.domains_with_consent_data =
                        IF res.consent_data # <<>> THEN @ + 1 ELSE @,
                    !.cmp_types = CountCmp(@, res.cmp_type)]
    ELSE [st EXCEPT !.failed_crawls = @ + 1]

\* lines 380-383: the loop takes the next domain and calls crawl_domain
EnterCrawlDomain ==
  /\ cdpc = "loop"
  /\ cd_i < Len(cd_domains)
  /\ cd_i' = cd_i + 1
  /\ cd_log' = Append(cd_log, "start")
  /\ cdpc' = "session"
  /\ UNCHANGED <<cd_domains, stats, delays, num_browsers, result, store_vars>>

\* line 383: the session runs to its end and crawl_domain returns
CrawlDomain ==
  /\ cdpc = "session"
  /\ \E site \in Sites : result' = {crawl_domain(cd_domains[cd_i], site)}
  /\ cd_log' = Append(cd_log, "end")
  /\ cdpc' = "save"
  /\ UNCHANGED <<cd_domains, cd_i, stats, delays, num_browsers, store_vars>>

\* line 384
SaveCrawlResult ==
  /\ cdpc = "save"
  /\ \E res \in result : save_crawl_result(res)
  /\ cd_log' = Append(cd_log, "save")
  /\ cdpc' = "update"
  /\ UNCHANGED <<cd_domains, cd_i, stats, delays, num_browsers, result>>

\* Mutant: the delay is left out after the first domain.
time_sleep_once(lg) ==
  IF \E k \in 1..Len(lg) : lg[k] = "delay" THEN lg ELSE Append(lg, "delay")

\* line 401: time.sleep(1) on the thread that runs the loop
time_sleep(lg) == Append(lg, "delay")

\* lines 386-401: the statistics, then time.sleep(1)
UpdateStatistics ==
  /\ cdpc = "update"
  /\ \E res \in result : stats' = UpdateStats(stats, res)
  /\ delays' = delays + 1
  /\ cd_log' = time_sleep(cd_log)
  /\ cdpc' = "loop"
  /\ UNCHANGED <<cd_domains, cd_i, num_browsers, result, store_vars>>

\* lines 403-409
ReturnSummary ==
  /\ cdpc = "loop"
  /\ cd_i = Len(cd_domains)
  /\ cdpc' = "done"
  /\ UNCHANGED <<cd_domains, cd_i, stats, delays, num_browsers, cd_log, result,
                 store_vars>>

ConsentNext ==
  \/ (EnterCrawlDomain /\ UNCHANGED outside_consent)
  \/ (CrawlDomain /\ UNCHANGED outside_consent)
  \/ (SaveCrawlResult /\ UNCHANGED outside_consent)
  \/ (UpdateStatistics /\ UNCHANGED outside_consent)
  \/ (ReturnSummary /\ UNCHANGED outside_consent)

\* line 35: the values of num_browsers a caller passes
BrowserCounts == {1, 2, 3}

\* A record an earlier call of crawl_domains on the same crawler left.
EarlierRows ==
  { <<>>,
    << CrawlRow(1, Except(<<"old.org">>, "WebDriverException")) >> }

\* One call of ConsentCrawler.crawl_domains, the statistics just set up
\* (lines 369-376); the store is empty or holds an earlier call's record.
InitConsent ==
  /\ input_domain = <<>>
  /\ prefix_list = <<>>
  /\ url_suffix = <<>>
  /\ idx = 0
  /\ r = {}
  /\ final_url = {}
  /\ ret = Pending
  /\ attempts = <<>>
  /\ ppc = "idle"
  /\ domains = <<>>
  /\ batches = 1
  /\ num_threads = 1
  /\ chunks = <<>>
  /\ batch_num = 0
  /\ task = <<>>
  /\ processed = 0
  /\ results = <<>>
  /\ finished_domains = {}
  /\ uncrawled = {}
  /\ consumed = <<>>
  /\ cpc = "idle"
  /\ files = <<>>
  /\ domain = <<>>
  /\ driver = "None"
  /\ page_source = {}
  /\ jar = <<>>
  /\ declaration_elements = {}
  /\ cmp_type = ""
  /\ consent_data = <<>>
  /\ cookies = <<>>
  /\ final_cookies = <<>>
  /\ buttons = <<>>
  /\ selector = 0
  /\ clicks = 0
  /\ sleeps = 0
  /\ phases = <<>>
  /\ faults = {}
  /\ result = {}
  /\ spc = "idle"
  /\ db_crawl_results \in EarlierRows
  /\ db_cookies = <<>>
  /\ db_consent_data = <<>>
  /\ saves = <<>>
  /\ cd_domains \in DomainLists
  /\ cd_i = 0
  /\ stats = NewStats(Len(cd_domains))
  /\ delays = 0
  /\ num_browsers \in BrowserCounts
  /\ cd_log = <<>>
  /\ cdpc = "loop"
  /\ include_unmatched = FALSE
  /\ clock = 0
  /\ exports = <<>>

SpecConsent == InitConsent /\ [][ConsentNext]_vars

-----------------------------------------------------------------------------
(* CookieExtractor (src/src/database/extract_cookies.py): the matcher.      *)
(* A free text is the sequence of its characters.                           *)

\* Purpose categories as CMPs write them: "Strictly Necessary Cookies",
\* "Marketing & Advertising", "Statistics", "Performance and Functional",
\* "Social Media Ads", "PREFERENCES", "Unclassified", "Downloads".
Text ==
  [ StrictlyNecessaryCookies |->
      <<"S", "t", "r", "i", "c", "t", "l", "y", " ", "N", "e", "c", "e", "s",
        "s", "a", "r", "y", " ", "C", "o", "o", "k", "i", "e", "s">>,
    MarketingAndAdvertising |->
      <<"M", "a", "r", "k", "e", "t", "i", "n", "g", " ", "&", " ", "A", "d",
        "v", "e", "r", "t", "i", "s", "i", "n", "g">>,
    Statistics |->
      <<"S", "t", "a", "t", "i", "s", "t", "i", "c", "s">>,
    PerformanceAndFunctional |->
      <<"P", "e", "r", "f", "o", "r", "m", "a", "n", "c", "e", " ", "a", "n",
        "d", " ", "F", "u", "n", "c", "t", "i", "o", "n", "a", "l">>,
    SocialMediaAds |->
      <<"S", "o", "c", "i", "a", "l", " ", "M", "e", "d", "i", "a", " ", "A",
        "d", "s">>,
    PREFERENCES |->
      <<"P", "R", "E", "F", "E", "R", "E", "N", "C", "E", "S">>,
    Unclassified |->
      <<"U", "n", "c", "l", "a", "s", "s", "i", "f", "i", "e", "d">>,
    Downloads |->
      <<"D", "o", "w", "n", "l", "o", "a", "d", "s">> ]

\* The purpose categories a declaration can carry: None, the empty text and
\* the texts above.
Categories == {{}, {<<>>}} \cup {{Text[f]} : f \in DOMAIN Text}

\* line 145: str.lower(), character by character
str_lower(t) ==
  LET upper == <<"A", "B", "C", "D", "E", "F", "G", "H", "I", "J", "K", "L",
                 "M", "N", "O", "P", "Q", "R", "S", "T", "U", "V", "W", "X",
                 "Y", "Z">>
      lower == <<"a", "b", "c", "d", "e", "f", "g", "h", "i", "j", "k", "l",
                 "m", "n", "o", "p", "q", "r", "s", "t", "u", "v", "w", "x",
                 "y", "z">>
      lower_char(c) ==
        IF \E i \in 1..Len(upper) : upper[i] = c
          THEN lower[CHOOSE i \in 1..Len(upper) : upper[i] = c]
          ELSE c
  IN  [i \in 1..Len(t) |-> lower_char(t[i])]

\* term in text
In(term, text) ==
  \E i \in 1..(Len(text) - Len(term) + 1) : SubSeq(text, i, i + Len(term) - 1) = term

\* lines 148, 152, 156, 160, 164: the terms of the five tests, in the order
\* of the tests
category_terms ==
  << { <<"n", "e", "c", "e", "s", "s", "a", "r", "y">>,
       <<"e", "s", "s", "e", "n", "t", "i", "a", "l">>,
       <<"r", "e", "q", "u", "i", "r", "e", "d">>,
       <<"s", "t", "r", "i", "c", "t", "l", "y">> },
     { <<"f", "u", "n", "c", "t", "i", "o", "n", "a", "l">>,
       <<"p", "r", "e", "f", "e", "r", "e", "n", "c", "e">>,
       <<"p", "e", "r", "s", "o", "n", "a", "l", "i", "z", "a", "t", "i", "o", "n">> },
     { <<"a", "n", "a", "l", "y", "t", "i", "c", "s">>,
       <<"p", "e", "r", "f", "o", "r", "m", "a", "n", "c", "e">>,
       <<"s", "t", "a", "t", "i", "s", "t", "i", "c", "s">>,
       <<"m", "e", "a", "s", "u", "r", "e", "m", "e", "n", "t">> },
     { <<"a", "d", "v", "e", "r", "t", "i", "s", "i", "n", "g">>,
       <<"m", "a", "r", "k", "e", "t", "i", "n", "g">>,
       <<"t", "a", "r", "g", "e", "t", "i", "n", "g">>,
       <<"a", "d", "s">> },
     { <<"s", "o", "c", "i", "a", "l">>,
       <<"m", "e", "d", "i", "a">> } >>

\* any(term in category_lower for term in terms)
AnyTermIn(terms, category_lower) == \E term \in terms : In(term, category_lower)

\* Mutant: the analytics terms are tested before the functional ones.
map_purpose_category_analytics_first(category) ==
  IF category = {} \/ category = {<<>>} THEN -1
  ELSE LET category_lower == str_lower(CHOOSE t \in category : TRUE)
       IN  IF AnyTermIn(category_terms[1], category_lower) THEN 0
           ELSE IF AnyTermIn(category_terms[3], category_lower) THEN 2
           ELSE IF AnyTermIn(category_terms[2], category_lower) THEN 1
           ELSE IF AnyTermIn(category_terms[4], category_lower) THEN 3
           ELSE IF AnyTermIn(category_terms[5], category_lower) THEN 4
           ELSE -1

\* lines 140-169: _map_purpose_category; the argument is {} for None and
\* {text} for a text
map_purpose_category(category) ==
  IF category = {} \/ category = {<<>>} THEN -1
  ELSE LET category_lower == str_lower(CHOOSE t \in category : TRUE)
       IN  IF AnyTermIn(category_terms[1], category_lower) THEN 0
           ELSE IF AnyTermIn(category_terms[2], category_lower) THEN 1
           ELSE IF AnyTermIn(category_terms[3], category_lower) THEN 2
           ELSE IF AnyTermIn(category_terms[4], category_lower) THEN 3
           ELSE IF AnyTermIn(category_terms[5], category_lower) THEN 4
           ELSE -1

\* Mutant: the mapping has no key "termly".
map_cmp_type_without_termly(cmp) ==
  CASE cmp = {"cookiebot"} -> 0
    [] cmp = {"onetrust"} -> 1
    [] OTHER -> -1

\* lines 131-138: _map_cmp_type, mapping.get(cmp_type, -1); the argument is
\* {} for None and {text} for a text
map_cmp_type(cmp) ==
  CASE cmp = {"cookiebot"} -> 0
    [] cmp = {"onetrust"} -> 1
    [] cmp = {"termly"} -> 2
    [] OTHER -> -1

-----------------------------------------------------------------------------
(* The store as the matcher finds it.  A column that holds NULL is {} and   *)
(* one that holds v is {v}; names and domains are sequences of pieces.      *)

\* crawl_results as earlier crawls left it: two successful crawls, of two
\* domains or twice of the same one, and a failed crawl
CrawlTables ==
  { << [id |-> 1, domain |-> <<"https://", "b.org">>, success |-> TRUE,
        cmp_type |-> "onetrust", cookies_collected |-> 2, error_message |-> {}],
       [id |-> 2, domain |-> <<"https://", "a.com">>, success |-> TRUE,
        cmp_type |-> "cookiebot", cookies_collected |-> 2, error_message |-> {}],
       [id |-> 3, domain |-> <<"https://", "c.net">>, success |-> FALSE,
        cmp_type |-> "unknown", cookies_collected |-> 0,
        error_message |-> {"Timeout"}] >>,
    << [id |-> 1, domain |-> <<"https://", "a.com">>, success |-> TRUE,
        cmp_type |-> "cookiebot", cookies_collected |-> 2, error_message |-> {}],
       [id |-> 2, domain |-> <<"https://", "a.com">>, success |-> TRUE,
        cmp_type |-> "error", cookies_collected |-> 2, error_message |-> {}],
       [id |-> 3, domain |-> <<"https://", "c.net">>, success |-> FALSE,
        cmp_type |-> "unknown", cookies_collected |-> 0,
        error_message |-> {"Timeout"}] >> }

\* the rows the cookies table can hold
CookieRowPool ==
  << [id |-> 1, crawl_id |-> 1, name |-> <<"sid">>, domain |-> <<".a.com">>,
      value |-> {"v1"}, path |-> {}, expiry |-> {}, secure |-> {TRUE},
      http_only |-> {}, same_site |-> {}],
     [id |-> 2, crawl_id |-> 1, name |-> <<"sid">>, domain |-> <<".a.com">>,
      value |-> {"v2"}, path |-> {"/shop"}, expiry |-> {"2030"}, secure |-> {FALSE},
      http_only |-> {TRUE}, same_site |-> {"lax"}],
     [id |-> 3, crawl_id |-> 2, name |-> <<"sid">>, domain |-> <<".a.com">>,
      value |-> {"v3"}, path |-> {"/"}, expiry |-> {}, secure |-> {TRUE},
      http_only |-> {TRUE}, same_site |-> {"strict"}],
     [id |-> 4, crawl_id |-> 2, name |-> <<"_", "ga">>, domain |-> <<".b.org">>,
      value |-> {""}, path |-> {"/"}, expiry |-> {"2031"}, secure |-> {FALSE},
      http_only |-> {FALSE}, same_site |-> {}],
     [id |-> 5, crawl_id |-> 3, name |-> <<"sid">>, domain |-> <<".a.com">>,
      value |-> {"v5"}, path |-> {"/"}, expiry |-> {}, secure |-> {FALSE},
      http_only |-> {FALSE}, same_site |-> {}] >>

\* the rows the consent_data table can hold; the category of the last one is
\* the empty text of a OneTrust category element (line 222)
DeclRowPool ==
  << [id |-> 1, crawl_id |-> 1, cookie_name |-> <<"sid">>,
      cookie_domain |-> <<".a.com">>,
      purpose_category |-> {Text.StrictlyNecessaryCookies},
      purpose_description |-> {"session"}, cmp_type |-> "cookiebot"],
     [id |-> 2, crawl_id |-> 1, cookie_name |-> <<"sid">>,
      cookie_domain |-> <<".a.com">>,
      purpose_category |-> {Text.MarketingAndAdvertising},
      purpose_description |-> {"ads"}, cmp_type |-> "cookiebot"],
     [id |-> 3, crawl_id |-> 2, cookie_name |-> <<"sid">>,
      cookie_domain |-> <<".a.com">>,
      purpose_category |-> {Text.PerformanceAndFunctional},
      purpose_description |-> {}, cmp_type |-> "onetrust"],
     [id |-> 4, crawl_id |-> 2, cookie_name |-> <<"_", "ga">>,
      cookie_domain |-> <<".a.com">>,
      purpose_category |-> {Text.Statistics},
      purpose_description |-> {"speed"}, cmp_type |-> "onetrust"],
     [id |-> 5, crawl_id |-> 2, cookie_name |-> <<"_", "ga">>,
      cookie_domain |-> <<".b.org">>,
      purpose_category |-> {<<>>},
      purpose_description |-> {"none given"}, cmp_type |-> "onetrust"] >>

\* a table: some rows of the pool, in rowid order
TablesOf(pool) ==
  { SelectSeq(pool, LAMBDA row : row.id \in S) : S \in SUBSET {pool[k].id : k \in 1..Len(pool)} }

\* Mutant: the second join leaves out cr.id = cd.crawl_id.
JoinedOnNameAndDomainOnly(crawls, cks, decls) ==
  { <<i, j, k>> \in (1..Len(crawls)) \X (0..Len(cks)) \X (0..Len(decls)) :
      /\ crawls[i].success
      /\ IF j = 0 THEN \A c \in 1..Len(cks) : cks[c].crawl_id # crawls[i].id
                  ELSE cks[j].crawl_id = crawls[i].id
      /\ LET on(d) == /\ j # 0
                      /\ cks[j].name = decls[d].cookie_name
                      /\ cks[j].domain = decls[d].cookie_domain
         IN  IF k = 0 THEN \A d \in 1..Len(decls) : ~on(d) ELSE on(k) }

\* lines 55-61: the rows of the two LEFT JOINs for the successful crawls, as
\* positions <<crawl, cookie, declaration>>, 0 where a join found no row
Joined(crawls, cks, decls) ==
  { <<i, j, k>> \in (1..Len(crawls)) \X (0..Len(cks)) \X (0..Len(decls)) :
      /\ crawls[i].success
      /\ IF j = 0 THEN \A c \in 1..Len(cks) : cks[c].crawl_id # crawls[i].id
                  ELSE cks[j].crawl_id = crawls[i].id
      /\ LET on(d) == /\ j # 0
                      /\ crawls[i].id = decls[d].crawl_id
                      /\ cks[j].name = decls[d].cookie_name
                      /\ cks[j].domain = decls[d].cookie_domain
         IN  IF k = 0 THEN \A d \in 1..Len(decls) : ~on(d) ELSE on(k) }

\* line 62: ORDER BY cr.domain, c.name.  Texts compare byte by byte, NULL
\* sorts first, and rows equal in both stay in the order of the join (crawl,
\* cookie, declaration rowid).
OrderKey(crawls, cks, x) ==
  LET by_domain == << <<"https://", "0.org">>, <<"https://", "a.com">>,
                      <<"https://", "b.org">>, <<"https://", "c.net">> >>
      by_name == << <<>>, <<"_", "ga">>, <<"id">>, <<"sid">>, <<"x", "_", "id">> >>
      rank(order, t) == CHOOSE k \in 1..Len(order) : order[k] = t
  IN  << rank(by_domain, crawls[x[1]].domain),
         IF x[2] = 0 THEN 0 ELSE rank(by_name, cks[x[2]].name),
         x[1], x[2], x[3] >>

RECURSIVE OrderBy(_, _, _)
OrderBy(crawls, cks, S) ==
  LET before(a, b) ==
        \E n \in 1..Len(a) : a[n] < b[n] /\ \A m \in 1..(n - 1) : a[m] = b[m]
      first == CHOOSE x \in S : \A y \in S \ {x} :
                 before(OrderKey(crawls, cks, x), OrderKey(crawls, cks, y))
  IN  IF S = {} THEN <<>> ELSE <<first>> \o OrderBy(crawls, cks, S \ {first})

\* lines 39-52: the columns selected for the row at position x; cr.cmp_type
\* is the text save_crawl_result wrote, never NULL
SelectedRow(crawls, cks, decls, x) ==
  LET cr == crawls[x[1]]
  IN  [crawl_id |-> cr.id, domain |-> cr.domain, cmp_type |-> {cr.cmp_type},
       success |-> cr.success,
       cookie_name |-> IF x[2] = 0 THEN {} ELSE {cks[x[2]].name},
       cookie_domain |-> IF x[2] = 0 THEN {} ELSE {cks[x[2]].domain},
       cookie_value |-> IF x[2] = 0 THEN {} ELSE cks[x[2]].value,
       cookie_path |-> IF x[2] = 0 THEN {} ELSE cks[x[2]].path,
       cookie_expiry |-> IF x[2] = 0 THEN {} ELSE cks[x[2]].expiry,
       cookie_secure |-> IF x[2] = 0 THEN {} ELSE cks[x[2]].secure,
       cookie_http_only |-> IF x[2] = 0 THEN {} ELSE cks[x[2]].http_only,
       cookie_same_site |-> IF x[2] = 0 THEN {} ELSE cks[x[2]].same_site,
       purpose_category |-> IF x[3] = 0 THEN {} ELSE decls[x[3]].purpose_category,
       purpose_description |->
         IF x[3] = 0 THEN {} ELSE decls[x[3]].purpose_description]

\* lines 38-67: cursor.execute(query); rows = cursor.fetchall()
fetchall(crawls, cks, decls) ==
  LET at == OrderBy(crawls, cks, Joined(crawls, cks, decls))
  IN  [n \in 1..Len(at) |-> SelectedRow(crawls, cks, decls, at[n])]

-----------------------------------------------------------------------------
(* extract_cookies_with_consent and export_to_json.                         *)

\* v or default, for a column of short texts
OrElse(v, default) ==
  IF v = {} \/ v = {""} THEN default ELSE CHOOSE t \in v : TRUE

\* line 77: f"{row['cookie_domain']}_{row['cookie_name']}"
CookieId(row) ==
  (CHOOSE d \in row.cookie_domain : TRUE) \o <<"_">>
    \o (CHOOSE n \in row.cookie_name : TRUE)

\* lines 100-106; bool(None) and bool(0) are False
VariableData(row) ==
  [value |-> OrElse(row.cookie_value, ""),
   expiry |-> OrElse(row.cookie_expiry, ""),
   secure |-> row.cookie_secure = {TRUE},
   http_only |-> row.cookie_http_only = {TRUE},
   same_site |-> OrElse(row.cookie_same_site, "no_restriction")]

\* lines 92-107: cookie_entry, with the key it is stored under
CookieEntry(row) ==
  [id |-> CookieId(row),
   name |-> CHOOSE n \in row.cookie_name : TRUE,
   domain |-> CHOOSE d \in row.cookie_domain : TRUE,
   path |-> OrElse(row.cookie_path, "/"),
   cmp_origin |-> map_cmp_type(row.cmp_type),
   label |-> map_purpose_category(row.purpose_category),
   purpose_description |-> OrElse(row.purpose_description, ""),
   crawl_domain |-> row.domain,
   variable_data |-> <<VariableData(row)>>]

\* Mutant: a merged instance brings its own label, CMP and description.
StoreLatestFields(extracted_data, entry) ==
  IF \E n \in 1..Len(extracted_data) : extracted_data[n].id = entry.id
    THEN [n \in 1..Len(extracted_data) |->
            IF extracted_data[n].id = entry.id
              THEN [entry EXCEPT
                      !.variable_data =
                         Append(extracted_data[n].variable_data, entry.variable_data[1])]
              ELSE extracted_data[n]]
    ELSE Append(extracted_data, entry)

\* lines 109-113: extracted_data after the entry of one row; a dict keeps its
\* keys in the order they were first stored
Store(extracted_data, entry) ==
  IF \E n \in 1..Len(extracted_data) : extracted_data[n].id = entry.id
    THEN [n \in 1..Len(extracted_data) |->
            IF extracted_data[n].id = entry.id
              THEN [extracted_data[n] EXCEPT
                      !.variable_data = Append(@, entry.variable_data[1])]
              ELSE extracted_data[n]]
    ELSE Append(extracted_data, entry)

\* lines 69-113: the loop over the rows from row n on
RECURSIVE ExtractLoop(_, _, _, _)
ExtractLoop(rows, n, acc, unmatched_too) ==
  IF n > Len(rows) THEN acc
  ELSE LET row == rows[n]
           has_consent_data ==
             row.purpose_category # {} /\ row.purpose_category # {<<>>}
       IN  IF row.cookie_name = {} \/ row.cookie_name = {<<>>}
             THEN ExtractLoop(rows, n + 1, acc, unmatched_too)
           ELSE IF ~has_consent_data /\ ~unmatched_too
             THEN ExtractLoop(rows, n + 1,
                              [acc EXCEPT !.unmatched_cookies = @ + 1], unmatched_too)
           ELSE ExtractLoop(rows, n + 1,
                  [extracted_data |-> Store(acc.extracted_data, CookieEntry(row)),
                   matched_cookies |->
                     IF has_consent_data THEN acc.matched_cookies + 1
                                         ELSE acc.matched_cookies,
                   unmatched_cookies |->
                     IF has_consent_data THEN acc.unmatched_cookies
                                         ELSE acc.unmatched_cookies + 1],
                  unmatched_too)

\* Mutant: an instance without an expiry gets the date of the run.
extract_cookies_expiry_from_now(crawls, cks, decls, unmatched_too, now) ==
  LET out == ExtractLoop(fetchall(crawls, cks, decls), 1,
                         [extracted_data |-> <<>>, matched_cookies |-> 0,
                          unmatched_cookies |-> 0], unmatched_too)
  IN  [cookies |->
         [n \in 1..Len(out.extracted_data) |->
            [out.extracted_data[n] EXCEPT
               !.variable_data =
                  [m \in 1..Len(@) |->
                     IF @[m].expiry = "" THEN [@[m] EXCEPT !.expiry = now]
                                         ELSE @[m]]]],
       statistics |->
         [total_unique_cookies |-> Len(out.extracted_data),
          matched_cookies |-> out.matched_cookies,
          unmatched_cookies |-> out.unmatched_cookies,
          extraction_date |-> now]]

\* lines 26-129; datetime.now().isoformat() is the reading of the clock
extract_cookies_with_consent(crawls, cks, decls, unmatched_too, now) ==
  LET out == ExtractLoop(fetchall(crawls, cks, decls), 1,
                         [extracted_data |-> <<>>, matched_cookies |-> 0,
                          unmatched_cookies |-> 0], unmatched_too)
  IN  [cookies |-> out.extracted_data,
       statistics |->
         [total_unique_cookies |-> Len(out.extracted_data),
          matched_cookies |-> out.matched_cookies,
          unmatched_cookies |-> out.unmatched_cookies,
          extraction_date |-> now]]

\* Bound: how many times the export is run.
MaxRuns == 2

\* lines 221-228: export_to_json; json.dump writes the whole of data, the
\* keys in the order the dict holds them
ExportToJson ==
  /\ Len(exports) < MaxRuns
  /\ exports' =
       Append(exports,
              [document |->
                 extract_cookies_with_consent(db_crawl_results, db_cookies,
                                              db_consent_data, include_unmatched,
                                              clock),
               read |-> <<db_crawl_results, db_cookies, db_consent_data>>])
  /\ clock' = clock + 1
  /\ UNCHANGED <<include_unmatched, store_vars>>

\* What one more crawl can add to the store: its record, the cookies it saw
\* and the declarations it read.  One crawl saw a cookie without a name and
\* read a OneTrust element whose name text is empty and that has no
\* data-domain (consent_crawler.py lines 221, 225); the last one saw the
\* cookie "id" of host "dev_x" and the cookie "x_id" of host "dev".
NewCrawls ==
  { [crawl |-> [domain |-> <<"https://", "a.com">>, success |-> TRUE,
                cmp_type |-> "cookiebot"],
     sees |-> << [name |-> <<"sid">>, domain |-> <<".a.com">>, value |-> {"n1"}] >>,
     declares |-> << [name |-> <<"sid">>, domain |-> <<".a.com">>,
                      category |-> {Text.StrictlyNecessaryCookies}] >>],
    [crawl |-> [domain |-> <<"https://", "a.com">>, success |-> TRUE,
                cmp_type |-> "cookiebot"],
     sees |-> << [name |-> <<"sid">>, domain |-> <<".a.com">>, value |-> {"n2"}] >>,
     declares |-> << [name |-> <<"sid">>, domain |-> <<".a.com">>,
                      category |-> {Text.StrictlyNecessaryCookies}],
                    [name |-> <<"sid">>, domain |-> <<".a.com">>,
                      category |-> {Text.MarketingAndAdvertising}] >>],
    [crawl |-> [domain |-> <<"https://", "a.com">>, success |-> TRUE,
                cmp_type |-> "unknown"],
     sees |-> << [name |-> <<"sid">>, domain |-> <<".a.com">>, value |-> {"n3"}] >>,
     declares |-> <<>>],
    [crawl |-> [domain |-> <<"https://", "0.org">>, success |-> TRUE,
                cmp_type |-> "termly"],
     sees |-> << [name |-> <<"sid">>, domain |-> <<".a.com">>, value |-> {"n4"}] >>,
     declares |-> << [name |-> <<"sid">>, domain |-> <<".a.com">>,
                      category |-> {Text.PREFERENCES}] >>],
    [crawl |-> [domain |-> <<"https://", "a.com">>, success |-> FALSE,
                cmp_type |-> "unknown"],
     sees |-> << [name |-> <<"sid">>, domain |-> <<".a.com">>, value |-> {"n5"}] >>,
     declares |-> << [name |-> <<"sid">>, domain |-> <<".a.com">>,
                      category |-> {Text.Statistics}] >>],
    [crawl |-> [domain |-> <<"https://", "b.org">>, success |-> TRUE,
                cmp_type |-> "onetrust"],
     sees |-> << [name |-> <<"_", "ga">>, domain |-> <<".a.com">>, value |-> {"n6"}] >>,
     declares |-> << [name |-> <<"_", "ga">>, domain |-> <<".a.com">>,
                      category |-> {Text.Unclassified}] >>],
    [crawl |-> [domain |-> <<"https://", "b.org">>, success |-> TRUE,
                cmp_type |-> "onetrust"],
     sees |-> << [name |-> <<>>, domain |-> <<".b.org">>, value |-> {"n7"}] >>,
     declares |-> << [name |-> <<>>, domain |-> <<"unknown">>,
                      category |-> {Text.Statistics}] >>],
    [crawl |-> [domain |-> <<"https://", "b.org">>, success |-> TRUE,
                cmp_type |-> "onetrust"],
     sees |-> << [name |-> <<"id">>, domain |-> <<"dev", "_", "x">>, value |-> {"n8"}],
                 [name |-> <<"x", "_", "id">>, domain |-> <<"dev">>, value |-> {"n9"}] >>,
     declares |-> << [name |-> <<"id">>, domain |-> <<"dev", "_", "x">>,
                      category |-> {Text.StrictlyNecessaryCookies}],
                     [name |-> <<"x", "_", "id">>, domain |-> <<"dev">>,
                      category |-> {Text.MarketingAndAdvertising}] >>] }

\* Between two runs of the export one more crawl is written to the store,
\* each row under the next rowid of its table and the id of the crawl.
NewCrawl ==
  /\ Len(exports) = 1
  /\ exports[1].read = <<db_crawl_results, db_cookies, db_consent_data>>
  /\ \E new \in NewCrawls :
       LET crawl_id == NextId(db_crawl_results)
       IN  /\ db_crawl_results' =
                Append(db_crawl_results,
                       [id |-> crawl_id, domain |-> new.crawl.domain,
                        success |-> new.crawl.success,
                        cmp_type |-> new.crawl.cmp_type,
                        cookies_collected |-> Len(new.sees),
                        error_message |->
                          IF new.crawl.success THEN {} ELSE {"Timeout"}])
           /\ db_cookies' =
                db_cookies \o
                  [k \in 1..Len(new.sees) |->
                     [id |-> NextId(db_cookies) + k - 1, crawl_id |-> crawl_id,
                      name |-> new.sees[k].name, domain |-> new.sees[k].domain,
                      value |-> new.sees[k].value, path |-> {"/"}, expiry |-> {},
                      secure |-> {TRUE}, http_only |-> {FALSE}, same_site |-> {}]]
           /\ db_consent_data' =
                db_consent_data \o
                  [k \in 1..Len(new.declares) |->
                     [id |-> NextId(db_consent_data) + k - 1, crawl_id |-> crawl_id,
                      cookie_name |-> new.declares[k].name,
                      cookie_domain |-> new.declares[k].domain,
                      purpose_category |-> new.declares[k].category,
                      purpose_description |-> {"declared"},
                      cmp_type |-> new.crawl.cmp_type]]
  /\ UNCHANGED <<include_unmatched, clock, exports, saves>>

\* Mutant: the rows of failed crawls are taken for orphans too.
CleanDatabaseOfFailedCrawls ==
  LET crawl_ids == { db_crawl_results[k].id :
                       k \in { k \in 1..Len(db_crawl_results) : db_crawl_results[k].success } }
  IN  /\ db_cookies' =
           SelectSeq(SelectSeq(db_cookies, LAMBDA row : row.name # <<>>),
                     LAMBDA row : row.crawl_id \in crawl_ids)
      /\ db_consent_data' =
           SelectSeq(SelectSeq(db_consent_data, LAMBDA row : row.cookie_name # <<>>),
                     LAMBDA row : row.crawl_id \in crawl_ids)
      /\ UNCHANGED <<db_crawl_results, saves, matcher_vars>>

\* post_process.py lines 38-71: DatabaseProcessor.clean_database, the four
\* DELETEs of one transaction.  name and cookie_name are NOT NULL columns, so
\* the first two remove the rows whose name is the empty text; the last two
\* remove the rows whose crawl_id is the id of no crawl_results row.
CleanDatabase ==
  LET crawl_ids == { db_crawl_results[k].id : k \in 1..Len(db_crawl_results) }
  IN  /\ db_cookies' =
           SelectSeq(SelectSeq(db_cookies, LAMBDA row : row.name # <<>>),
                     LAMBDA row : row.crawl_id \in crawl_ids)
      /\ db_consent_data' =
           SelectSeq(SelectSeq(db_consent_data, LAMBDA row : row.cookie_name # <<>>),
                     LAMBDA row : row.crawl_id \in crawl_ids)
      /\ UNCHANGED <<db_crawl_results, saves, matcher_vars>>

MatcherNext ==
  \/ (ExportToJson /\ UNCHANGED outside_matcher)
  \/ (NewCrawl /\ UNCHANGED outside_matcher)
  \/ (CleanDatabase /\ UNCHANGED outside_matcher)

\* The matcher is run on a store that crawls have filled; every other
\* operation is at rest.
InitMatcher ==
  /\ input_domain = <<>>
  /\ prefix_list = <<>>
  /\ url_suffix = <<>>
  /\ idx = 0
  /\ r = {}
  /\ final_url = {}
  /\ ret = Pending
  /\ attempts = <<>>
  /\ ppc = "idle"
  /\ domains = <<>>
  /\ batches = 1
  /\ num_threads = 1
  /\ chunks = <<>>
  /\ batch_num = 0
  /\ task = <<>>
  /\ processed = 0
  /\ results = <<>>
  /\ finished_domains = {}
  /\ uncrawled = {}
  /\ consumed = <<>>
  /\ cpc = "idle"
  /\ files = <<>>
  /\ domain = <<>>
  /\ driver = "None"
  /\ page_source = {}
  /\ jar = <<>>
  /\ declaration_elements = {}
  /\ cmp_type = ""
  /\ consent_data = <<>>
  /\ cookies = <<>>
  /\ final_cookies = <<>>
  /\ buttons = <<>>
  /\ selector = 0
  /\ clicks = 0
  /\ sleeps = 0
  /\ phases = <<>>
  /\ faults = {}
  /\ result = {}
  /\ spc = "idle"
  /\ db_crawl_results \in CrawlTables
  /\ db_cookies \in TablesOf(CookieRowPool)
  /\ db_consent_data \in TablesOf(DeclRowPool)
  /\ saves = <<>>
  /\ cd_domains = <<>>
  /\ cd_i = 0
  /\ stats = <<>>
  /\ delays = 0
  /\ num_browsers = 1
  /\ cd_log = <<>>
  /\ cdpc = "idle"
  /\ include_unmatched \in BOOLEAN
  /\ clock = 0
  /\ exports = <<>>

SpecMatcher == InitMatcher /\ [][MatcherNext]_vars

-----------------------------------------------------------------------------
(* Properties of run_reachability_check, checked under SpecProbe.          *)

IsRetryError(o) == o.kind = "exc" /\ o.exc \in {"ConnectionError", "Timeout"}
IsFatalError(o) ==
  o.kind = "exc" /\ o.exc \in {"TooManyRedirects", "SSLError", "URLRequired", "MissingSchema"}
ThreePrefixes == << <<"https://", "www.">>, <<"https://">>, <<"http://">> >>

\* C1, as stated: every input that carries a scheme (any scheme) whose probe
\* returns an outcome made exactly one connection attempt, to the input URL
\* unchanged.
C1_AnySchemeOneAttempt ==
  (input_domain # <<>> /\ Head(input_domain) \in {"http://", "https://", "HTTPS://", "ftp://"}
     /\ ret.kind = "return")
  => (Len(attempts) = 1 /\ attempts[1].url = input_domain)

\* C1, amended: for every input whose scheme is http or https (in any letter
\* case), at most one connection attempt is ever made, it goes to the input URL
\* unchanged (no prefix is put in front, no "www." is stripped), and a probe
\* that returned an outcome made exactly one.
C1_HttpSchemeOneAttempt ==
  (input_domain # <<>> /\ Head(input_domain) \in {"http://", "https://", "HTTPS://"})
  => /\ Len(attempts) <= 1
     /\ \A k \in 1..Len(attempts) : attempts[k].url = input_domain
     /\ (ret.kind = "return" => Len(attempts) = 1)

\* C1 witness: a schemed input whose only attempt failed with a connection
\* error, and the probe ended there.
C1_Witness ==
  /\ input_domain = <<"https://", "www.", "a.com">>
  /\ ppc = "done"
  /\ Len(attempts) = 1
  /\ attempts[1].url = input_domain
  /\ IsRetryError(attempts[1].got)
  /\ ret = [kind |-> "return", url |-> input_domain, code |-> CONNECT_FAIL]

\* C2: for every input without a scheme, the attempts are made to
\* https://www.<host>, https://<host>, http://<host> in this order, <host>
\* being the input without a leading "www."; there are at most 3, at least 1
\* once the probe is over, and every attempt but the last ended in a
\* connection/timeout-class error.
C2_UnschemedAttemptOrder ==
  (ppc # "resolve"
     /\ (input_domain = <<>>
           \/ Head(input_domain) \notin {"http://", "https://", "HTTPS://", "ftp://"}))
  => LET host == IF input_domain # <<>> /\ Head(input_domain) = "www."
                   THEN Tail(input_domain) ELSE input_domain
     IN  /\ Len(attempts) <= 3
         /\ (ppc \in {"after", "done"} => Len(attempts) >= 1)
         /\ \A k \in 1..Len(attempts) :
              /\ attempts[k].url = ThreePrefixes[k] \o host
              /\ (k < Len(attempts) => IsRetryError(attempts[k].got))

\* C2 witness: "www.a.com" tried under all three prefixes, the third answered.
C2_Witness ==
  /\ input_domain = <<"www.", "a.com">>
  /\ ppc = "done"
  /\ Len(attempts) = 3
  /\ attempts[1].url = <<"https://", "www.", "a.com">>
  /\ attempts[3].url = <<"http://", "a.com">>
  /\ attempts[3].got.kind = "resp"

\* C3: an attempt that raised a TLS/scheme-class error is the last attempt of
\* the probe, and the probe returned (input_domain, CONNECT_FAIL).
C3_FatalErrorStops ==
  \A k \in 1..Len(attempts) :
    IsFatalError(attempts[k].got)
    => /\ k = Len(attempts)
       /\ ppc = "done"
       /\ ret = [kind |-> "return", url |-> input_domain, code |-> CONNECT_FAIL]

\* C3 witness: an SSL error on the second prefix, with a third prefix left.
C3_Witness ==
  /\ input_domain = <<"a.com">>
  /\ Len(attempts) = 2
  /\ attempts[2].got = [kind |-> "exc", exc |-> "SSLError"]
  /\ ppc = "done"

\* C4: after a connection/timeout-class error on prefix k the probe stands at
\* prefix k+1 or later, the next attempt (if any) uses prefix k+1, the probe
\* does not end before every prefix was tried, and when all attempts ended in
\* such errors the outcome is (input_domain, CONNECT_FAIL).
C4_RetryErrorAdvances ==
  /\ \A k \in 1..Len(attempts) :
       IsRetryError(attempts[k].got)
       => /\ idx >= k + 1
          /\ (k < Len(attempts)
                => attempts[k + 1].url = prefix_list[k + 1] \o url_suffix)
          /\ (ppc \in {"after", "done"} /\ k = Len(attempts)
                => k = Len(prefix_list))
  /\ (ppc = "done" /\ ret.kind = "return"
        /\ \A k \in 1..Len(attempts) : IsRetryError(attempts[k].got))
     => ret = [kind |-> "return", url |-> input_domain, code |-> CONNECT_FAIL]

\* C4 witness: three connection/timeout errors in a row, outcome CONNECT_FAIL.
C4_Witness ==
  /\ input_domain = <<"a.com">>
  /\ ppc = "done"
  /\ Len(attempts) = 3
  /\ attempts[1].got = [kind |-> "exc", exc |-> "Timeout"]
  /\ \A k \in 1..3 : IsRetryError(attempts[k].got)
  /\ ret.code = CONNECT_FAIL

\* C5, as stated: a response whose status is outside 200..299 gives BOT for
\* 403/406 and HTTP_ERROR otherwise, and never reaches content classification.
C5_Non2xxIsError ==
  \A k \in 1..Len(attempts) :
    (attempts[k].got.kind = "resp"
       /\ ~(200 <= attempts[k].got.status_code /\ attempts[k].got.status_code <= 299))
    => /\ ppc = "done"
       /\ ret.kind = "return"
       /\ ret.code = IF attempts[k].got.status_code \in {403, 406}
                       THEN BOT ELSE HTTP_ERROR

\* C5, amended: a response whose status is in 400..599 gives BOT for 403/406
\* and HTTP_ERROR otherwise, with the URL tried; a response with any other
\* status (1xx, 2xx, 3xx, 600 and above) goes to content classification and
\* never gives BOT or HTTP_ERROR.
C5_ErrorStatusIs4xx5xx ==
  \A k \in 1..Len(attempts) :
    attempts[k].got.kind = "resp"
    => LET st == attempts[k].got.status_code
       IN  IF 400 <= st /\ st <= 599
             THEN /\ ppc = "done"
                  /\ ret = [kind |-> "return", url |-> attempts[k].url,
                            code |-> IF st \in {403, 406} THEN BOT ELSE HTTP_ERROR]
             ELSE /\ ppc \in {"after", "done"}
                  /\ (ppc = "done" => ret.kind = "return"
                        /\ ret.code \in {NOCMP, COOKIEBOT, ONETRUST, TERMLY})

\* C5 witness: a 304 answer was classified by content, and a 406 gave BOT.
C5_Witness ==
  /\ ppc = "done"
  /\ Len(attempts) = 2
  /\ attempts[2].got.kind = "resp"
  /\ attempts[2].got.status_code = 304
  /\ ret.code = COOKIEBOT

\* C6: a classified response gives COOKIEBOT when its body has a Cookiebot
\* marker, else ONETRUST when it has a OneTrust marker, else TERMLY when it has
\* the Termly marker, else NOCMP.
C6_FingerprintPrecedence ==
  (ppc = "done" /\ final_url # {} /\ ret.kind = "return")
  => LET body == (CHOOSE x \in r : TRUE).text
         cb == {"https://consent.cookiebot.com/", "https://consent.cookiebot.eu/",
                "cb-main.js"}
         ot == {"https://cdn-apac.onetrust.com", "https://cdn-ukwest.onetrust.com",
                "https://cmp-cdn.cookielaw.org", "https://cdn.cookielaw.org",
                "https://optanon.blob.core.windows.net",
                "https://cookie-cdn.cookiepro.com",
                "https://cookiepro.blob.core.windows.net"}
         tm == {"https://app.termly.io/"}
     IN  /\ r # {}
         /\ ret.code = IF body \cap cb # {} THEN COOKIEBOT
                       ELSE IF body \cap ot # {} THEN ONETRUST
                       ELSE IF body \cap tm # {} THEN TERMLY
                       ELSE NOCMP

\* C6 witness: a body with a Cookiebot and a OneTrust marker is COOKIEBOT.
C6_Witness ==
  /\ ppc = "done"
  /\ r # {}
  /\ (CHOOSE x \in r : TRUE).text = {"cb-main.js", "https://cdn.cookielaw.org"}
  /\ ret.kind = "return"
  /\ ret.code = COOKIEBOT

-----------------------------------------------------------------------------
(* Properties of crawl_domains, checked under Spec.                        *)

\* The bucket a task's outcome belongs in.
OutcomeBucket(out) ==
  IF out.kind \in {"timeout", "expired"} THEN "timeout"
  ELSE IF out.kind # "return" THEN "none"
  ELSE CASE out.code = 5 -> "cookiebot"
         [] out.code = 6 -> "onetrust"
         [] out.code = 7 -> "termly"
         [] out.code = 4 -> "nocmp"
         [] out.code = 3 -> "bot"
         [] out.code = 2 -> "http_error"
         [] out.code = 1 -> "failed"
         [] OTHER -> "none"

Returned == cpc = "done" /\ uncrawled = {}
Interrupted == cpc = "done" /\ uncrawled # {}

\* C7: when crawl_domains returns without an interrupt, every domain was booked
\* once, in the bucket of its own task's outcome, each bucket holds as many
\* entries as domains were booked in it, and the bucket sizes add up to the
\* number of domains.
C7_EveryDomainInOneBucket ==
  Returned
  => /\ \A g \in 1..Len(domains) :
          /\ task[g].st = "done"
          /\ consumed[g].bucket \in BucketNames
          /\ consumed[g].bucket = OutcomeBucket(task[g].out)
     /\ \A b \in BucketNames :
          Len(results[b]) = Cardinality({g \in 1..Len(domains) : consumed[g].bucket = b})
     /\ Len(results["cookiebot"]) + Len(results["onetrust"]) + Len(results["termly"])
          + Len(results["nocmp"]) + Len(results["bot"]) + Len(results["http_error"])
          + Len(results["failed"]) + Len(results["timeout"]) = Len(domains)

\* C7 witness: three domains in three batches, one timed out, one Cookiebot,
\* one blocked as a bot.
C7_Witness ==
  /\ Returned
  /\ Len(domains) = 3
  /\ Len(chunks) = 3
  /\ Len(results["timeout"]) = 1
  /\ Len(results["cookiebot"]) = 1
  /\ Len(results["bot"]) = 1

\* C8: whatever the loop booked for a domain is the outcome of that domain's
\* own task: a timed-out or crashed task is in the timeout bucket under its
\* input domain, every other task is in the bucket of its own status code with
\* the URL its probe returned; the timeout bucket holds exactly the domains of
\* timed-out and crashed tasks; and on return without interrupt no task is
\* missing.
C8_TimeoutTouchesOnlyItsTask ==
  /\ \A g \in 1..Len(domains) :
       consumed[g].bucket # "none"
       => /\ task[g].st = "done"
          /\ IF task[g].out.kind \in {"timeout", "expired"}
               THEN consumed[g] = [bucket |-> "timeout", entry |-> domains[g]]
               ELSE /\ task[g].out.kind = "return"
                    /\ consumed[g] = [bucket |-> OutcomeBucket(task[g].out),
                                      entry |-> task[g].out.url]
  /\ \A k \in 1..Len(results["timeout"]) :
       \E g \in 1..Len(domains) :
         /\ domains[g] = results["timeout"][k]
         /\ task[g].out.kind \in {"timeout", "expired"}
         /\ consumed[g].bucket = "timeout"
  /\ Returned => \A g \in 1..Len(domains) : consumed[g].bucket # "none"

\* C8 witness: in one batch of three, the second task timed out and the other
\* two were booked with their own outcomes.
C8_Witness ==
  /\ Returned
  /\ Len(domains) = 3
  /\ Len(chunks) = 1
  /\ task[2].out = [kind |-> "timeout"]
  /\ results["timeout"] = <<domains[2]>>
  /\ consumed[1].bucket = "cookiebot"
  /\ consumed[3].bucket = "bot"

\* C9, as stated: when crawl_domains returns after an interrupt, every task
\* whose result was complete at that moment is in its outcome bucket, and every
\* domain is either booked in a bucket or listed as uncrawled, not both and
\* not neither.
C9_InterruptKeepsCompleted ==
  Interrupted
  => LET remaining == CHOOSE x \in uncrawled : TRUE
     IN  /\ \A g \in 1..Len(domains) :
              (task[g].st = "done" /\ task[g].out.kind \in {"return", "timeout", "expired"})
              => consumed[g].bucket = OutcomeBucket(task[g].out)
         /\ \A g \in 1..Len(domains) :
              (consumed[g].bucket # "none") # (domains[g] \in remaining)

\* C10, as stated: while the loop waits in next(it), every finished task of
\* the batch that was not consumed yet can be handed out now, whether or not
\* an earlier task is still running.
C10_ConsumedAsCompleted ==
  cpc = "next"
  => \A i \in 1..Len(Submitted) :
       (task[Submitted[i]].st = "done" /\ ~task[Submitted[i]].taken)
       => i \in Deliverable(task, Submitted)

\* C10, amended: within a batch results are consumed in submission order: a
\* task is consumed only after every earlier task of the batch has finished and
\* been consumed, and a finished task behind an unfinished one waits.
C10_ConsumedInSubmissionOrder ==
  \A i \in 1..Len(Submitted) :
    /\ task[Submitted[i]].taken
         => \A j \in 1..(i - 1) :
              task[Submitted[j]].st = "done" /\ task[Submitted[j]].taken
    /\ consumed[Submitted[i]].bucket # "none"
         => \A j \in 1..(i - 1) : task[Submitted[j]].taken

\* C10 witness: the second task of a batch has finished, the first is still
\* running, and the loop waits with nothing consumed.
C10_Witness ==
  /\ cpc = "next"
  /\ Len(Submitted) >= 2
  /\ task[Submitted[1]].st = "running"
  /\ task[Submitted[2]].st = "done"
  /\ ~task[Submitted[2]].taken
  /\ processed = 0

\* C11: no failure of a single probe crashes the presence run: every task
\* that ends on its own ends with an outcome value (a pool-level timeout or
\* crash aside), never with an exception, and crawl_domains never ends by an
\* exception.
\* urlparse (line 103) stands before the try of line 118: its ValueError for
\* a bracket that is never closed leaves run_reachability_check, comes out of
\* next(it) at line 206 and is caught by none of the handlers of crawl_domains.
C11_NoProbeFailureCrashesRun ==
  /\ cpc # "raised"
  /\ \A g \in 1..Len(task) :
       task[g].st = "done" => task[g].out.kind \in {"return", "timeout", "expired"}

-----------------------------------------------------------------------------
(* Properties of one consent session, checked under SpecSession.           *)

AllPhases ==
  << "INIT", "NAVIGATE", "WAIT_LOAD", "DETECT_CMP", "EXTRACT_DECLARED_PURPOSES",
     "COLLECT_COOKIES_PRE", "INTERACT_CONSENT", "COLLECT_COOKIES_POST", "TEARDOWN" >>
SessionReturned == spc \in {"returned", "saved"}
SessionSucceeded == SessionReturned /\ \E res \in result : res.success
SessionFailed == SessionReturned /\ \E res \in result : ~res.success

\* C12: in every consent session that ends in SUCCESS the nine phases occur
\* exactly once each and in the order INIT, NAVIGATE, WAIT_LOAD, DETECT_CMP,
\* EXTRACT_DECLARED_PURPOSES, COLLECT_COOKIES_PRE, INTERACT_CONSENT,
\* COLLECT_COOKIES_POST, TEARDOWN; while no exception has left the try block
\* the phases entered so far are an initial piece of that order.
C12_SuccessRunsAllPhasesInOrder ==
  /\ SessionSucceeded => phases = AllPhases
  /\ faults \cap {"INIT", "NAVIGATE", "WAIT_LOAD"} = {}
       => /\ Len(phases) <= Len(AllPhases)
          /\ phases = SubSeq(AllPhases, 1, Len(phases))

\* C12 witness: a session that clicked an accept button has returned success.
C12_Witness == SessionSucceeded /\ sleeps = 1 /\ driver = "quit"

\* C13: a session that fails in NAVIGATE or WAIT_LOAD runs none of the
\* extraction phases, its browser is quit, its result has success = false and
\* a failure reason, and the record saved for it carries both.
C13_NavigationFailureIsRecorded ==
  (SessionReturned /\ faults \cap {"NAVIGATE", "WAIT_LOAD"} # {})
  => /\ phases \in { <<"INIT", "NAVIGATE", "TEARDOWN">>,
                     <<"INIT", "NAVIGATE", "WAIT_LOAD", "TEARDOWN">> }
     /\ driver = "quit"
     /\ consent_data = <<>> /\ cookies = <<>> /\ final_cookies = <<>> /\ clicks = 0
     /\ \A res \in result :
          /\ ~res.success
          /\ res.error_message # {}
          /\ res.domain = domain
          /\ spc = "saved"
               => /\ Len(db_crawl_results) = 1
                  /\ ~db_crawl_results[1].success
                  /\ db_crawl_results[1].error_message = res.error_message
                  /\ db_crawl_results[1].domain = res.domain
                  /\ db_consent_data = <<>>

\* C13 witness: the readiness wait timed out and the failure is in the store.
C13_Witness ==
  /\ spc = "saved"
  /\ "WAIT_LOAD" \in faults
  /\ Len(db_crawl_results) = 1
  /\ db_crawl_results[1].error_message = {"Page load timeout"}

\* C14, as stated: a session ends in FAILURE only through a fault in NAVIGATE
\* or WAIT_LOAD.
C14_FailureOnlyFromNavigateOrWait ==
  SessionFailed => faults \cap {"NAVIGATE", "WAIT_LOAD"} # {}

\* C14, amended: a session ends in FAILURE exactly when INIT (creating the
\* browser), NAVIGATE or WAIT_LOAD raised; a fault in DETECT_CMP,
\* EXTRACT_DECLARED_PURPOSES, either cookie snapshot or INTERACT_CONSENT never
\* turns the result into a failure.
C14_FailureOnlyFromInitNavigateOrWait ==
  /\ SessionFailed => faults \cap {"INIT", "NAVIGATE", "WAIT_LOAD"} # {}
  /\ (SessionReturned /\ faults \cap {"INIT", "NAVIGATE", "WAIT_LOAD"} = {})
       => SessionSucceeded

\* C14 witness: detection, a cookie snapshot and a click raised, and the
\* session still returned success.
C14_Witness ==
  /\ SessionSucceeded
  /\ {"DETECT_CMP", "COLLECT_COOKIES_POST", "INTERACT_CONSENT"} \subseteq faults


HasCookiebotText ==
  \E t \in page_source : Lower(t) \in {"cookiebot", "consent.cookiebot"}
HasOneTrustText ==
  \E t \in page_source : Lower(t) \in {"onetrust", "cookielaw", "optanon", "cookiepro"}
HasTermlyText ==
  \E t \in page_source : Lower(t) \in {"termly", "app.termly.io"}
ByPrecedence ==
  IF HasCookiebotText THEN "cookiebot"
  ELSE IF HasOneTrustText THEN "onetrust"
  ELSE IF HasTermlyText THEN "termly"
  ELSE "unknown"
Detected == \E k \in 1..Len(phases) : phases[k] = "DETECT_CMP"

\* C19, as stated: DETECT_CMP classifies by the precedence Cookiebot,
\* OneTrust, Termly, else "unknown", and in every case, a fault while reading
\* the page included, the detected value is one of cookiebot, onetrust,
\* termly, unknown and the session goes on.
C19_DetectedIsOneOfFour ==
  Detected
  => /\ cmp_type \in {"cookiebot", "onetrust", "termly", "unknown"}
     /\ "DETECT_CMP" \notin faults => cmp_type = ByPrecedence
     /\ spc = "extract" => result = {}
     /\ SessionReturned => SessionSucceeded

\* C19, amended: without a fault the detected value is the first match in the
\* precedence Cookiebot, OneTrust, Termly and "unknown" when none matches; a
\* fault while reading the page gives the fifth value "error"; in every case
\* the session goes on and ends in success.
C19_DetectedByPrecedenceOrError ==
  Detected
  => /\ cmp_type \in {"cookiebot", "onetrust", "termly", "unknown", "error"}
     /\ "DETECT_CMP" \notin faults => cmp_type = ByPrecedence
     /\ "DETECT_CMP" \in faults => cmp_type = "error"
     /\ spc = "extract" => result = {}
     /\ SessionReturned => SessionSucceeded /\ \A res \in result : res.cmp_type = cmp_type

\* C19 witness: a page that names both Cookiebot and OneTrust was detected as
\* Cookiebot and the session is about to extract.
C19_Witness ==
  /\ spc = "extract"
  /\ HasCookiebotText /\ HasOneTrustText
  /\ cmp_type = "cookiebot"

DeclarationsOf(cmp, e) ==
  IF cmp = "cookiebot" THEN CookiebotDeclaration(e) ELSE OneTrustDeclaration(e)
GatheredFrom(cmp, es) ==
  LET good == SelectSeq(es, LAMBDA e : ~e.raises)
  IN  [k \in 1..Len(good) |-> DeclarationsOf(cmp, good[k])]
Extracted == \E k \in 1..Len(phases) : phases[k] = "EXTRACT_DECLARED_PURPOSES"

\* C20: EXTRACT_DECLARED_PURPOSES runs the scraper of the detected CMP type
\* and gives the empty list for every other type (termly, unknown, error); an
\* element that raises loses only itself, so whatever was gathered before it
\* is still in the result, a lookup that raises gives the empty list, and in
\* neither case is the session aborted.
C20_ExtractKeepsWhatWasGathered ==
  Extracted
  => /\ cmp_type \notin {"cookiebot", "onetrust"}
          => declaration_elements = {} /\ consent_data = <<>>
     /\ cmp_type \in {"cookiebot", "onetrust"}
          => \E lookup \in declaration_elements :
               /\ lookup.raises => consent_data = <<>>
               /\ ~lookup.raises
                    => /\ consent_data = GatheredFrom(cmp_type, lookup.elements)
                       /\ \A n \in 0..Len(lookup.elements) :
                            (\A k \in 1..n : ~lookup.elements[k].raises)
                            => /\ Len(consent_data) >= n
                               /\ SubSeq(consent_data, 1, n)
                                    = GatheredFrom(cmp_type, SubSeq(lookup.elements, 1, n))
     /\ spc = "collect" => result = {}
     /\ SessionReturned
          => SessionSucceeded /\ \A res \in result : res.consent_data = consent_data

\* C20 witness: the Cookiebot scraper met an element that raised after one
\* that did not, and the session succeeded with that one declaration.
C20_Witness ==
  /\ SessionSucceeded
  /\ cmp_type = "cookiebot"
  /\ \E lookup \in declaration_elements :
       /\ Len(lookup.elements) = 2
       /\ ~lookup.elements[1].raises
       /\ lookup.elements[2].raises
  /\ Len(consent_data) = 1

-----------------------------------------------------------------------------
(* Properties of ConsentCrawler.crawl_domains and the store, checked under  *)
(* SpecConsent.                                                             *)

EarlierCount == Len(db_crawl_results) - Len(saves)
SessionsEnded == IF cdpc \in {"session", "save"} THEN cd_i - 1 ELSE cd_i
RowsOfCrawl(tbl, id) == SelectSeq(tbl, LAMBDA row : row.crawl_id = id)

C15_RecordsFollowSessions ==
  /\ Len(saves) = SessionsEnded
  /\ EarlierCount >= 0
  /\ cdpc = "done" => Len(db_crawl_results) = EarlierCount + Len(cd_domains)
  /\ \A k \in 1..Len(saves) :
       LET row == db_crawl_results[EarlierCount + k]
       IN  /\ row = CrawlRow(EarlierCount + k, saves[k].result)
           /\ row.domain \in {cd_domains[k], WithScheme(cd_domains[k])}
C15_RecordsNeverChange ==
  /\ Len(db_crawl_results') >= Len(db_crawl_results)
  /\ \A k \in 1..Len(db_crawl_results) : db_crawl_results'[k] = db_crawl_results[k]

\* C15: after crawl_domains has processed n domains the store holds exactly n
\* new CrawlRecords, the k-th of them for the k-th domain of the input; each
\* is written once, after its session has ended, and no step changes or
\* removes a record that is in the store.
C15_OneRecordPerDomainInOrder ==
  [] C15_RecordsFollowSessions /\ [][C15_RecordsNeverChange]_vars

\* C15 witness: three domains done, the second one's session failed, and the
\* store already held an earlier record.
C15_Witness ==
  /\ cdpc = "done"
  /\ Len(cd_domains) = 3
  /\ Len(db_crawl_results) = 4
  /\ ~db_crawl_results[3].success
  /\ db_crawl_results[4].success

\* C17: every cookies row and every consent_data row carries the crawl_id of
\* a crawl_results row, and that row is the one written by the same save: the
\* rows under a save's crawl_id are exactly that save's declarations, in
\* order, and the record with this id is that save's result.
C17_RowsBelongToTheirSave ==
  /\ \A j \in 1..Len(db_consent_data) :
       \E k \in 1..Len(saves) : db_consent_data[j].crawl_id = saves[k].crawl_id
  /\ \A j \in 1..Len(db_cookies) :
       \E k \in 1..Len(saves) : db_cookies[j].crawl_id = saves[k].crawl_id
  /\ \A k \in 1..Len(saves) :
       LET id == saves[k].crawl_id
           res == saves[k].result
           rows == RowsOfCrawl(db_consent_data, id)
       IN  /\ \E i \in 1..Len(db_crawl_results) :
                db_crawl_results[i] = CrawlRow(id, res)
           /\ Len(rows) = Len(res.consent_data)
           /\ \A j \in 1..Len(rows) :
                /\ rows[j].cookie_name = res.consent_data[j].name
                /\ rows[j].purpose_category = res.consent_data[j].category
                /\ rows[j].cmp_type = res.consent_data[j].cmp
  /\ \A j \in 1..Len(db_consent_data) : db_consent_data[j].id = j

\* C17 witness: two crawls have each filed declarations under their own id.
C17_Witness ==
  /\ Len(saves) >= 2
  /\ RowsOfCrawl(db_consent_data, saves[1].crawl_id) # <<>>
  /\ RowsOfCrawl(db_consent_data, saves[2].crawl_id) # <<>>
  /\ saves[1].crawl_id # saves[2].crawl_id

\* C18: after a successful crawl whose CrawlRecord reports
\* cookies_collected = n the store holds n cookies rows with that record's
\* crawl_id.
\* save_crawl_result has no INSERT INTO cookies: the snapshot is counted
\* (line 308) and dropped, so the table init_database creates stays empty.
C18_CookieRowsMatchCount ==
  \A k \in 1..Len(saves) :
    saves[k].result.success
    => Len(RowsOfCrawl(db_cookies, saves[k].crawl_id))
         = saves[k].result.cookies_collected

-----------------------------------------------------------------------------
(* What a presence crawl leaves behind, checked under Spec.                 *)

Saved == cpc = "saved" /\ uncrawled = {}

\* C16, as stated: a presence-mode crawl also creates exactly one CrawlRecord
\* in the store for every probed domain.
C16_PresenceWritesCrawlRecords ==
  (Returned \/ Saved) => Len(db_crawl_results) = Len(domains)

\* C16, amended: a presence-mode crawl creates no CrawlRecord and touches no
\* table of the store; what it leaves for every probed domain is one line in
\* the text file of the domain's bucket, and the files hold as many lines as
\* there are domains.
C16_PresenceWritesBucketFiles ==
  /\ db_crawl_results = <<>> /\ db_cookies = <<>> /\ db_consent_data = <<>>
  /\ Saved
       => /\ DOMAIN files =
               {"cookiebot_responses.txt", "onetrust_responses.txt",
                "termly_responses.txt", "nocmp_responses.txt", "failed_urls.txt",
                "http_responses.txt", "bot_responses.txt", "crawler_timeouts.txt",
                "crawl_summary.txt"}
          /\ \A b \in BucketNames : files[file_mapping[b]] = results[b]
          /\ \A g \in 1..Len(domains) :
               \E n \in 1..Len(files[file_mapping[consumed[g].bucket]]) :
                 files[file_mapping[consumed[g].bucket]][n] = consumed[g].entry
          /\ Len(files["cookiebot_responses.txt"]) + Len(files["onetrust_responses.txt"])
               + Len(files["termly_responses.txt"]) + Len(files["nocmp_responses.txt"])
               + Len(files["failed_urls.txt"]) + Len(files["http_responses.txt"])
               + Len(files["bot_responses.txt"]) + Len(files["crawler_timeouts.txt"])
               = Len(domains)

\* C16 witness: three probed domains were saved, one of them in the bot
\* file, and the store is empty.
C16_Witness ==
  /\ Saved
  /\ Len(domains) = 3
  /\ files["bot_responses.txt"] # <<>>
  /\ db_crawl_results = <<>>

-----------------------------------------------------------------------------
(* Properties of the interaction with the consent banner, lines 279-310.    *)

\* the interaction loop of the session has run
Interacted ==
  /\ spc \in {"collect_final", "finally", "returned", "saved"}
  /\ buttons # <<>>

\* selector k finds a control that is displayed and enabled
Matches(k) == buttons[k] \in {"clicked", "click_raises"}

NoMatch == \A k \in 1..Len(buttons) : ~Matches(k)

FirstMatch ==
  CHOOSE k \in 1..Len(buttons) : Matches(k) /\ \A j \in 1..(k - 1) : ~Matches(j)

\* C21: the selectors are tried in list order and the first visible and
\* enabled control is clicked exactly once: never more than one click in a
\* session, no selector tried after the clicked one, the settle delay iff a
\* click succeeded, and no click at all when no selector matches.
C21_FirstMatchClickedOnce ==
  Interacted =>
    /\ clicks <= 1
    /\ sleeps = 1 <=> (\E k \in 1..selector : buttons[k] = "clicked")
    /\ NoMatch => (clicks = 0 /\ sleeps = 0 /\ selector = Len(accept_selectors))
    /\ ~NoMatch => (clicks = 1 /\ selector = FirstMatch)

\* the places of phase ph in the phases the session has entered
PlacesOf(ph) == { k \in 1..Len(phases) : phases[k] = ph }

\* C22: a successful consent session takes exactly two cookie snapshots, one
\* before and one after INTERACT_CONSENT, and cookies_collected of its result
\* and of the record saved for it is the size of the snapshot taken after the
\* interaction.
C22_TwoSnapshotsPostCountReported ==
  SessionSucceeded =>
    /\ Cardinality(PlacesOf("COLLECT_COOKIES_PRE")) = 1
    /\ Cardinality(PlacesOf("COLLECT_COOKIES_POST")) = 1
    /\ \A i \in PlacesOf("COLLECT_COOKIES_PRE"), j \in PlacesOf("INTERACT_CONSENT"),
          k \in PlacesOf("COLLECT_COOKIES_POST") : i < j /\ j < k
    /\ \A res \in result : res.cookies_collected = Len(final_cookies)
    /\ spc = "saved" =>
         /\ Len(db_crawl_results) = 1
         /\ db_crawl_results[1].cookies_collected = Len(final_cookies)

\* C22 witness: a saved successful session whose two snapshots differ in size.
C22_Witness ==
  /\ SessionSucceeded
  /\ spc = "saved"
  /\ Len(cookies) # Len(final_cookies)
  /\ Len(final_cookies) > 0

-----------------------------------------------------------------------------
(* Properties of the loop of ConsentCrawler.crawl_domains, lines 365-409,   *)
(* checked under SpecConsent.                                                *)

\* how many sessions are open after the first n steps of the log
OpenAfter(n) ==
  Cardinality({k \in 1..n : cd_log[k] = "start"})
    - Cardinality({k \in 1..n : cd_log[k] = "end"})

\* crawl_domain is called on the thread of the loop and returns before the
\* next call: at no moment is a second session open
SessionsOneAtATime == \A n \in 0..Len(cd_log) : OpenAfter(n) <= 1

\* C24: with num_browsers = k the sessions run in parallel up to k: never
\* more than k sessions are open at once, and a call with k > 1 over at least
\* k domains has had k sessions open at once by the time it returns.
C24_ParallelUpToNumBrowsers ==
  /\ \A n \in 0..Len(cd_log) : OpenAfter(n) <= num_browsers
  /\ (cdpc = "done" /\ num_browsers > 1 /\ Len(cd_domains) >= num_browsers)
       => \E n \in 0..Len(cd_log) : OpenAfter(n) = num_browsers

StartsOf == { k \in 1..Len(cd_log) : cd_log[k] = "start" }

\* C25: between the end of one domain's crawl, its record saved, and the
\* start of the next domain's session the delay of time.sleep(1) occurs: no
\* two sessions start without, in between, the end of the first, its save and
\* then a delay; every delay is a step of the loop itself.
C25_DelayBetweenSessions ==
  /\ \A i \in StartsOf, j \in StartsOf :
       i < j => \E e \in (i + 1)..(j - 1), s \in (i + 1)..(j - 1), d \in (i + 1)..(j - 1) :
                  /\ cd_log[e] = "end" /\ cd_log[s] = "save" /\ cd_log[d] = "delay"
                  /\ e < s /\ s < d
  /\ delays = Cardinality({k \in 1..Len(cd_log) : cd_log[k] = "delay"})
  /\ cdpc \in {"session", "save", "update"} => delays = cd_i - 1
  /\ cdpc \in {"loop", "done"} => delays = cd_i

\* C25 witness: the third session of a call has started.
C25_Witness ==
  /\ cdpc = "session"
  /\ Cardinality(StartsOf) = 3
  /\ delays = 2

-----------------------------------------------------------------------------
(* Properties of the matcher, checked under SpecMatcher.                    *)

\* the tables run n of the export read
CrawlsRead(n) == exports[n].read[1]
CookiesRead(n) == exports[n].read[2]
DeclsRead(n) == exports[n].read[3]

\* cookie row c belongs to a successful crawl of the tables run n read
OfSuccessfulCrawl(n, c) ==
  \E i \in 1..Len(CrawlsRead(n)) :
    CrawlsRead(n)[i].id = c.crawl_id /\ CrawlsRead(n)[i].success

\* the pairs <<cookie row, declaration row>> of run n with the same crawl id,
\* cookie name and cookie domain
Attached(n) ==
  { <<j, k>> \in (1..Len(CookiesRead(n))) \X (1..Len(DeclsRead(n))) :
      LET c == CookiesRead(n)[j]
          d == DeclsRead(n)[k]
      IN  /\ c.crawl_id = d.crawl_id
          /\ c.name = d.cookie_name
          /\ c.domain = d.cookie_domain
          /\ OfSuccessfulCrawl(n, c) }

Labelled(n) ==
  { x \in Attached(n) : DeclsRead(n)[x[2]].purpose_category \notin {{}, {<<>>}} }

InstancesOf(doc) ==
  LET RECURSIVE Sum(_)
      Sum(m) == IF m = 0 THEN 0 ELSE Len(doc.cookies[m].variable_data) + Sum(m - 1)
  IN  Sum(Len(doc.cookies))

\* entry e shows cookie row c as its first instance
FirstInstanceIs(e, c) ==
  /\ e.name = c.name
  /\ e.domain = c.domain
  /\ e.variable_data[1].value = OrElse(c.value, "")

CrawlsObserving(n, e) ==
  { CookiesRead(n)[j].crawl_id : j \in
      { j \in 1..Len(CookiesRead(n)) :
          /\ CookiesRead(n)[j].name = e.name
          /\ CookiesRead(n)[j].domain = e.domain
          /\ OfSuccessfulCrawl(n, CookiesRead(n)[j])
          /\ include_unmatched \/ \E x \in Labelled(n) : x[1] = j } }

\* C27: for every entry of the export, whatever the store holds, the length
\* of variable_data is the number of crawls in which its (name, domain) pair
\* was observed.
C27_OneInstancePerCrawl ==
  \A n \in 1..Len(exports) :
    \A m \in 1..Len(exports[n].document.cookies) :
      LET e == exports[n].document.cookies[m]
      IN  Len(e.variable_data) = Cardinality(CrawlsObserving(n, e))

\* between the first two runs one crawl was added to the store
CrawlAdded ==
  /\ Len(exports) >= 2
  /\ Len(CrawlsRead(2)) = Len(CrawlsRead(1)) + 1

\* the cookie rows of the added crawl that bring an instance into the export
NewInstances ==
  { j \in 1..Len(CookiesRead(2)) :
      /\ CookiesRead(2)[j].crawl_id = CrawlsRead(2)[Len(CrawlsRead(2))].id
      /\ CrawlsRead(2)[Len(CrawlsRead(2))].success
      /\ include_unmatched \/ \E x \in Labelled(2) : x[1] = j }

\* C28: when a new crawl that observes an already exported (name, domain)
\* pair is added and the matcher is run again, the entry of that pair is
\* there once, with one more element of variable_data, and every other entry
\* keeps the length of its variable_data.
C28_NewCrawlAddsOneInstance ==
  CrawlAdded =>
    LET old == exports[1].document.cookies
        new == exports[2].document.cookies
    IN  \A j \in NewInstances, m \in 1..Len(old) :
          (old[m].name = CookiesRead(2)[j].name /\ old[m].domain = CookiesRead(2)[j].domain)
          => /\ Len(new) = Len(old)
             /\ \A k \in 1..Len(old) :
                  \E i \in 1..Len(new) :
                    /\ new[i].id = old[k].id
                    /\ \A h \in 1..Len(new) : new[h].id = old[k].id => h = i
                    /\ Len(new[i].variable_data)
                         = Len(old[k].variable_data) + (IF k = m THEN 1 ELSE 0)

\* what C28 says, kept to new crawls with at most one declaration for the
\* cookie they observe
C28_HoldsWithoutDuplicateDeclarations ==
  (CrawlAdded /\ \A j \in NewInstances :
                   Cardinality({x \in Attached(2) : x[1] = j}) <= 1)
  => C28_NewCrawlAddsOneInstance

\* the first two runs of the export read the same store
RerunUnchanged ==
  /\ Len(exports) >= 2
  /\ exports[1].read = exports[2].read

CategoriesHit(text) ==
  { c \in 0..4 : \E term \in category_terms[c + 1] : In(term, str_lower(text)) }

\* the first category hit, -1 for no text and for no hit
FirstCategoryHit(category) ==
  IF category = {} \/ category = {<<>>} THEN -1
  ELSE LET hits == CategoriesHit(CHOOSE t \in category : TRUE)
       IN  IF hits = {} THEN -1
           ELSE CHOOSE c \in hits : \A other \in hits : c <= other

\* the first category hit, for every text of the model
LabelOfText == [category \in Categories |-> FirstCategoryHit(category)]

LabelsOfAllTexts ==
  /\ \A category \in Categories :
       map_purpose_category(category) = LabelOfText[category]
  /\ map_purpose_category({Text.StrictlyNecessaryCookies}) = 0
  /\ map_purpose_category({Text.MarketingAndAdvertising}) = 3

\* a text with keywords of functional (1) and of analytics (2)
TwoCategoriesHit == CategoriesHit(Text.PerformanceAndFunctional) = {1, 2}

\* C30: the label of a purpose text is the first of necessary(0),
\* functional(1), analytics(2), advertising(3), social(4) with a keyword
\* inside the text, whatever the case of the letters, and -1 when no keyword
\* is inside or the text is empty or missing; with keywords of two categories
\* the lower number wins.  So are the labels of all texts and of the entries
\* that the export writes.
C30_LabelIsFirstCategoryHit ==
  /\ LabelsOfAllTexts
  /\ \A n \in 1..Len(exports) :
       \A m \in 1..Len(exports[n].document.cookies) :
         LET e == exports[n].document.cookies[m]
         IN  \/ include_unmatched /\ e.label = -1
             \/ \E x \in Attached(n) :
                  /\ FirstInstanceIs(e, CookiesRead(n)[x[1]])
                  /\ e.label = LabelOfText[DeclsRead(n)[x[2]].purpose_category]

\* C30 witness: the export holds an entry labelled 1 from a text with
\* keywords of two categories, "Performance and Functional".
C30_Witness ==
  /\ TwoCategoriesHit
  /\ \E n \in 1..Len(exports) :
       \E m \in 1..Len(exports[n].document.cookies) :
         /\ exports[n].document.cookies[m].label = 1
         /\ \E x \in Attached(n) :
              /\ DeclsRead(n)[x[2]].purpose_category = {Text.PerformanceAndFunctional}
              /\ FirstInstanceIs(exports[n].document.cookies[m], CookiesRead(n)[x[1]])

\* the CMP identifiers crawl_results can hold, and the code of each
CmpCode ==
  [cmp \in {"cookiebot", "onetrust", "termly", "unknown", "error", "", "Cookiebot"}
     |-> IF cmp = "cookiebot" THEN 0
         ELSE IF cmp = "onetrust" THEN 1
         ELSE IF cmp = "termly" THEN 2
         ELSE -1]

\* the successful crawl whose cookie row is the first instance of entry e has
\* the CMP identifier cmp
FirstSeenUnder(n, e, cmp) ==
  \E j \in 1..Len(CookiesRead(n)), i \in 1..Len(CrawlsRead(n)) :
    /\ FirstInstanceIs(e, CookiesRead(n)[j])
    /\ CrawlsRead(n)[i].id = CookiesRead(n)[j].crawl_id
    /\ CrawlsRead(n)[i].success
    /\ CrawlsRead(n)[i].domain = e.crawl_domain
    /\ CrawlsRead(n)[i].cmp_type = cmp

\* C31: in every entry of the export label is one of 0, 1, 2, 3, 4, -1 and
\* cmp_origin is one of 0, 1, 2, -1; cmp_origin is 0 for cookiebot, 1 for
\* onetrust, 2 for termly and -1 for every other stored identifier, "unknown",
\* "error" and a missing one among them.
C31_CodesWithinEnumerations ==
  /\ \A cmp \in DOMAIN CmpCode : map_cmp_type({cmp}) = CmpCode[cmp]
  /\ map_cmp_type({}) = -1
  /\ \A category \in Categories : map_purpose_category(category) \in (0..4) \cup {-1}
  /\ \A n \in 1..Len(exports) :
       \A m \in 1..Len(exports[n].document.cookies) :
         LET e == exports[n].document.cookies[m]
         IN  /\ e.label \in {0, 1, 2, 3, 4, -1}
             /\ e.cmp_origin \in {0, 1, 2, -1}
             /\ \E cmp \in DOMAIN CmpCode :
                  FirstSeenUnder(n, e, cmp) /\ e.cmp_origin = CmpCode[cmp]

\* C31 witness: one export holds an entry first seen by a termly crawl, with
\* cmp_origin 2, and an entry first seen by a crawl whose CMP is "error" or
\* "unknown", with cmp_origin -1.
C31_Witness ==
  \E n \in 1..Len(exports) :
    \E m, k \in 1..Len(exports[n].document.cookies) :
      /\ exports[n].document.cookies[m].cmp_origin = 2
      /\ FirstSeenUnder(n, exports[n].document.cookies[m], "termly")
      /\ exports[n].document.cookies[k].cmp_origin = -1
      /\ \/ FirstSeenUnder(n, exports[n].document.cookies[k], "error")
         \/ FirstSeenUnder(n, exports[n].document.cookies[k], "unknown")


\* the cookie rows of the successful crawls run n read
InstancesRead(n) ==
  { j \in 1..Len(CookiesRead(n)) : OfSuccessfulCrawl(n, CookiesRead(n)[j]) }

\* the entries of the export of run n that list cookie row j as an instance
EntriesOf(n, j) ==
  { m \in 1..Len(exports[n].document.cookies) :
      \E h \in 1..Len(exports[n].document.cookies[m].variable_data) :
        exports[n].document.cookies[m].variable_data[h].value
          = OrElse(CookiesRead(n)[j].value, "") }

\* cookie row j of run n is an instance of the export of run n
Exported(n, j) == EntriesOf(n, j) # {}

\* a declaration joins cookie row j of run n
DeclarationJoins(n, j) == \E x \in Attached(n) : x[1] = j

\* C32: with the flag off a cookie instance is absent from the export iff no
\* declaration joins it; with the flag on every cookie instance of a
\* successful crawl is exported, and the entry that an instance without a
\* joined declaration opens has label -1.
C32_UnmatchedPolicy ==
  \A n \in 1..Len(exports) :
    \A j \in InstancesRead(n) :
      IF ~include_unmatched
        THEN ~Exported(n, j) <=> ~DeclarationJoins(n, j)
        ELSE /\ Exported(n, j)
             /\ ~DeclarationJoins(n, j) =>
                  \A m \in 1..Len(exports[n].document.cookies) :
                    FirstInstanceIs(exports[n].document.cookies[m], CookiesRead(n)[j])
                      => exports[n].document.cookies[m].label = -1

\* what C32 says, for stores in which every declaration has a category text
\* and every cookie a name
UnmatchedPolicyOfCategorisedDeclarations ==
  (\A n \in 1..Len(exports) :
     /\ Labelled(n) = Attached(n)
     /\ \A j \in 1..Len(CookiesRead(n)) : CookiesRead(n)[j].name # <<>>)
  => C32_UnmatchedPolicy

\* a run with the flag off left out a cookie instance that a declaration
\* joins, a declaration with a description and an empty category
JoinedInstanceLeftOut ==
  /\ ~include_unmatched
  /\ \E n \in 1..Len(exports) :
       \E x \in Attached(n) \ Labelled(n) :
         /\ ~Exported(n, x[1])
         /\ DeclsRead(n)[x[2]].purpose_description # {}
         /\ exports[n].document.statistics.unmatched_cookies >= 1


\* table old is the beginning of table new: no row of old is gone or changed
IsPrefix(old, new) ==
  Len(old) <= Len(new) /\ \A k \in 1..Len(old) : new[k] = old[k]

InvalidRows(old, name_of(_)) ==
  { k \in 1..Len(old) :
      \/ name_of(old[k]) = <<>>
      \/ \A i \in 1..Len(db_crawl_results) : db_crawl_results[i].id # old[k].crawl_id }

\* table new is table old without its invalid rows, the other rows unchanged
\* and in their order
Cleaned(old, new, name_of(_)) ==
  LET stay == { k \in 1..Len(old) : k \notin InvalidRows(old, name_of) }
  IN  /\ Len(new) = Cardinality(stay)
      /\ \A k \in stay : new[Cardinality({h \in stay : h <= k})] = old[k]

CookieNameOf(row) == row.name
DeclNameOf(row) == row.cookie_name

ExportedInstances(n) == { j \in InstancesRead(n) : Exported(n, j) }

\* C34: two cookie instances of the export are listed in the same top-level
\* entry iff they have the same domain and the same name, so two pairs of
\* (domain, name) that differ never share an entry of the export.
C34_KeyedByDomainAndName ==
  \A n \in 1..Len(exports) :
    \A i, j \in ExportedInstances(n) :
      (EntriesOf(n, i) \cap EntriesOf(n, j) # {})
        <=> /\ CookiesRead(n)[i].domain = CookiesRead(n)[j].domain
            /\ CookiesRead(n)[i].name = CookiesRead(n)[j].name

\* what C34 says, for stores without two (domain, name) pairs that give the
\* same text when joined by "_"
KeyedByDomainAndNameUnlessKeysCollide ==
  (\A n \in 1..Len(exports) :
     \A i, j \in InstancesRead(n) :
       (CookiesRead(n)[i].domain \o <<"_">> \o CookiesRead(n)[i].name
          = CookiesRead(n)[j].domain \o <<"_">> \o CookiesRead(n)[j].name)
       => /\ CookiesRead(n)[i].domain = CookiesRead(n)[j].domain
          /\ CookiesRead(n)[i].name = CookiesRead(n)[j].name)
  => C34_KeyedByDomainAndName

\* an export lists the cookie "x_id" of host "dev" under the entry of the
\* cookie "id" of host "dev_x"
TwoPairsInOneEntry ==
  \E n \in 1..Len(exports) :
    \E m \in 1..Len(exports[n].document.cookies) :
      LET e == exports[n].document.cookies[m]
      IN  /\ e.domain = <<"dev", "_", "x">>
          /\ e.name = <<"id">>
          /\ Len(e.variable_data) = 2
          /\ \E j \in InstancesRead(n) :
               /\ CookiesRead(n)[j].domain = <<"dev">>
               /\ m \in EntriesOf(n, j)


\* the rows of the query of run n that the loop makes an instance of: those
\* with a cookie name and, unless unmatched cookies are included, a category
RowsKept(n) ==
  SelectSeq(fetchall(CrawlsRead(n), CookiesRead(n), DeclsRead(n)),
            LAMBDA row :
              /\ row.cookie_name \notin {{}, {<<>>}}
              /\ include_unmatched \/ row.purpose_category \notin {{}, {<<>>}})

\* the positions in rows of the rows stored under the key of entry e
RowsOfEntry(rows, e) == { h \in 1..Len(rows) : CookieId(rows[h]) = e.id }

\* C35: an entry of the export has the label, cmp_origin, purpose_description,
\* path and crawl_domain of the first instance stored under its key, and every
\* later instance under that key adds one element to variable_data and
\* nothing else, also when its own declared purpose maps to another label.
C35_MergeKeepsFirstInstance ==
  \A n \in 1..Len(exports) :
    LET rows == RowsKept(n)
    IN  \A m \in 1..Len(exports[n].document.cookies) :
          LET e == exports[n].document.cookies[m]
              at == RowsOfEntry(rows, e)
              first == rows[CHOOSE h \in at : \A g \in at : h <= g]
          IN  /\ at # {}
              /\ e.label = map_purpose_category(first.purpose_category)
              /\ e.cmp_origin = map_cmp_type(first.cmp_type)
              /\ e.purpose_description = OrElse(first.purpose_description, "")
              /\ e.path = OrElse(first.cookie_path, "/")
              /\ e.crawl_domain = first.domain
              /\ e.name = CHOOSE t \in first.cookie_name : TRUE
              /\ e.domain = CHOOSE t \in first.cookie_domain : TRUE
              /\ Len(e.variable_data) = Cardinality(at)
              /\ \A h \in at :
                   e.variable_data[Cardinality({g \in at : g <= h})].value
                     = OrElse(rows[h].cookie_value, "")

\* C35 witness: an entry with label 0 lists a second instance, of another
\* crawl with another CMP, whose declaration maps to label 1 and has another
\* path.
C35_Witness ==
  \E n \in 1..Len(exports) :
    LET rows == RowsKept(n)
    IN  \E m \in 1..Len(exports[n].document.cookies) :
          LET e == exports[n].document.cookies[m]
          IN  /\ e.label = 0
              /\ e.cmp_origin = 0
              /\ Len(e.variable_data) >= 2
              /\ \E h \in RowsOfEntry(rows, e) :
                   /\ map_purpose_category(rows[h].purpose_category) = 1
                   /\ map_cmp_type(rows[h].cmp_type) # 0
                   /\ OrElse(rows[h].cookie_path, "/") # e.path


-----------------------------------------------------------------------------
(* The URL that run_reachability_check returns, checked under SpecProbe.     *)

ProbeReturned == ppc = "done" /\ ret.kind = "return"

\* the last attempt of the probe: the URL tried and what requests.get gave
LastAttempt == attempts[Len(attempts)]

\* the URL of a returned outcome is the one of its class: the input for
\* CONNECT_FAIL, the URL tried for BOT and HTTP_ERROR, the URL of the final
\* response for COOKIEBOT, ONETRUST, TERMLY, NOCMP and OK
UrlIsTheOneOfTheClass ==
  ProbeReturned =>
    CASE ret.code = CONNECT_FAIL -> ret.url = input_domain
      [] ret.code \in {BOT, HTTP_ERROR} ->
           /\ attempts # <<>>
           /\ LastAttempt.got.kind = "resp"
           /\ ret.url = LastAttempt.url
      [] ret.code \in {COOKIEBOT, ONETRUST, TERMLY, NOCMP, OK} ->
           /\ attempts # <<>>
           /\ LastAttempt.got.kind = "resp"
           /\ ret.url = IF LastAttempt.got.location = <<>>
                          THEN LastAttempt.url
                          ELSE LastAttempt.got.location
      [] OTHER -> FALSE

\* C36, as stated: the returned URL is the one of the outcome class, and it is
\* never empty.
C36_UrlByClassNeverEmpty ==
  /\ UrlIsTheOneOfTheClass
  /\ ProbeReturned => ret.url # <<>>

\* C36 amended: the returned URL is the one of the outcome class; it is empty
\* only when the input is the empty string, which comes back as it is with
\* CONNECT_FAIL.
C36_UrlByClassEmptyOnlyForEmptyInput ==
  /\ UrlIsTheOneOfTheClass
  /\ ProbeReturned =>
       (ret.url = <<>> <=> (input_domain = <<>> /\ ret.code = CONNECT_FAIL))

\* C36 witness: the second prefix was answered 403 with a redirect, and the
\* probe returned BOT with the URL tried, neither the input nor the redirect
\* target.
C36_Witness ==
  /\ ProbeReturned
  /\ input_domain = <<"www.", "a.com">>
  /\ Len(attempts) = 2
  /\ LastAttempt.got.kind = "resp"
  /\ LastAttempt.got.location # <<>>
  /\ ret = [kind |-> "return", url |-> <<"https://", "a.com">>, code |-> BOT]


-----------------------------------------------------------------------------
(* The batches of crawl_domains, checked under Spec.                         *)

\* the chunks one after the other
RECURSIVE Flatten(_)
Flatten(cs) == IF cs = <<>> THEN <<>> ELSE Head(cs) \o Flatten(Tail(cs))

\* how many domains the chunks before chunk k hold
RECURSIVE LenBefore(_, _)
LenBefore(cs, k) == IF k <= 1 THEN 0 ELSE Len(cs[k - 1]) + LenBefore(cs, k - 1)

ChunksBuilt == cpc \notin {"idle", "start"}

\* every chunk is non-empty and is the slice of the input that starts where
\* the chunk before it ended; together the chunks are the input
ChunksPartitionInput ==
  ChunksBuilt =>
    /\ \A k \in 1..Len(chunks) :
         /\ chunks[k] # <<>>
         /\ LenBefore(chunks, k) + Len(chunks[k]) <= Len(domains)
         /\ \A i \in 1..Len(chunks[k]) :
              chunks[k][i] = domains[LenBefore(chunks, k) + i]
    /\ Flatten(chunks) = domains
    /\ \A g \in 1..Len(domains) :
         Cardinality({ <<k, i>> \in (1..Len(chunks)) \X (1..Len(domains)) :
                         i <= Len(chunks[k]) /\ chunks[k][i] = domains[g] }) = 1

\* the domains of the batches submitted so far are in the pool or through it,
\* no other domain is, and every result of the batches before the current one
\* has been consumed
BatchesInTurn ==
  ChunksBuilt =>
    /\ \A g \in 1..Len(domains) :
         task[g].st # "new" <=> g <= LenBefore(chunks, batch_num + 1)
    /\ \A g \in 1..Len(domains) :
         g <= LenBefore(chunks, batch_num)
           => task[g].st = "done" /\ task[g].taken /\ consumed[g] # NotRecorded

\* a step submits a domain only if it was not submitted before, and submits
\* exactly the domains of the next chunk
SubmittedOnce ==
  \A g \in 1..Len(domains) :
    (task'[g].st = "queued" /\ task[g].st # "queued")
      => /\ task[g].st = "new"
         /\ batch_num' = batch_num + 1
         /\ \E i \in 1..Len(chunks[batch_num']) : chunks[batch_num'][i] = domains[g]

\* C37: whatever the length n of the input and the batch count b, the chunks
\* of crawl_domains are non-empty consecutive slices in the order of the
\* input whose concatenation is the input, each domain goes to the pool
\* exactly once, and a batch goes to the pool only after every result of the
\* batch before it has been consumed.
C37_ChunksPartitionAndBatchesInTurn ==
  /\ [](ChunksPartitionInput /\ BatchesInTurn)
  /\ [][SubmittedOnce]_vars

\* C37 witness: three domains in two batches give three chunks of one domain;
\* the third batch is in the pool, the first two have been consumed.
C37_Witness ==
  /\ Len(domains) = 3
  /\ batches = 2
  /\ Len(chunks) = 3
  /\ batch_num = 3
  /\ task[3].st = "queued"
  /\ task[1].taken /\ task[2].taken


-----------------------------------------------------------------------------
(* The rows that ConsentCrawler.crawl_domains writes, checked under          *)
(* SpecConsent.                                                              *)

\* the consent_data rows of the crawl with this id
DeclarationRowsOf(id) ==
  { j \in 1..Len(db_consent_data) : db_consent_data[j].crawl_id = id }

\* C38: every crawl_results row with success = false has cmp_type "unknown",
\* cookies_collected 0, an error_message that is not NULL and no consent_data
\* row under its id; every row with success = true has a NULL error_message.
C38_RecordFieldsFollowSuccess ==
  \A k \in 1..Len(db_crawl_results) :
    LET rec == db_crawl_results[k]
    IN  IF rec.success
          THEN rec.error_message = {}
          ELSE /\ rec.cmp_type = "unknown"
               /\ rec.cookies_collected = 0
               /\ rec.error_message # {}
               /\ DeclarationRowsOf(rec.id) = {}

\* C38 witness: the store holds the record of a session that found cookies
\* and declarations and, after it, the record of a session that timed out.
C38_Witness ==
  \E k, f \in 1..Len(db_crawl_results) :
    /\ k < f
    /\ db_crawl_results[k].success
    /\ db_crawl_results[k].cookies_collected > 0
    /\ DeclarationRowsOf(db_crawl_results[k].id) # {}
    /\ ~db_crawl_results[f].success
    /\ db_crawl_results[f].error_message = {"Page load timeout"}


-----------------------------------------------------------------------------
(* The declarations a session leaves in the store, checked under             *)
(* SpecSession.                                                              *)

\* C39: every consent_data row belongs to a crawl_results row with the same
\* cmp_type, which is "cookiebot" or "onetrust"; a crawl recorded with any
\* other CMP ("termly", "unknown", "error") has no consent_data row.
C39_DeclarationsCarryTheCrawlsCmp ==
  /\ \A j \in 1..Len(db_consent_data) :
       /\ db_consent_data[j].cmp_type \in {"cookiebot", "onetrust"}
       /\ \E k \in 1..Len(db_crawl_results) :
            /\ db_crawl_results[k].id = db_consent_data[j].crawl_id
            /\ db_crawl_results[k].cmp_type = db_consent_data[j].cmp_type
  /\ \A k \in 1..Len(db_crawl_results) :
       db_crawl_results[k].cmp_type \in {"termly", "unknown", "error"}
         => DeclarationRowsOf(db_crawl_results[k].id) = {}
  /\ \A k \in 1..Len(db_crawl_results) :
       db_crawl_results[k].cmp_type
         \in {"cookiebot", "onetrust", "termly", "unknown", "error"}

\* C39 witness: a page with the markers of OneTrust and of Termly was crawled
\* as onetrust, and its two declarations are in the store, signed onetrust.
C39_Witness ==
  /\ spc = "saved"
  /\ page_source = {"optanon", "app.termly.io"}
  /\ Len(db_crawl_results) = 1
  /\ db_crawl_results[1].cmp_type = "onetrust"
  /\ Len(db_consent_data) = 2
  /\ \A j \in 1..2 : db_consent_data[j].cmp_type = "onetrust"

\* a session on a page with the marker of Termly alone was saved: the crawl is
\* recorded as termly and has no declaration
TermlyCrawlSaved ==
  /\ spc = "saved"
  /\ page_source = {"app.termly.io"}
  /\ db_crawl_results[1].cmp_type = "termly"
  /\ db_crawl_results[1].success
  /\ db_consent_data = <<>>


-----------------------------------------------------------------------------
(* The summary of ConsentCrawler.crawl_domains, checked under SpecConsent.   *)

\* The domains whose statistics update (lines 386-398) has run.
Accounted == IF cdpc \in {"loop", "done"} THEN cd_i ELSE cd_i - 1

\* The results crawl_domain returned for them, in the order of the loop.
AccountedResults ==
  [k \in 1..Accounted |-> IF k <= Len(saves) THEN saves[k].result
                          ELSE Except(<<>>, "missing")]

Successes == { k \in 1..Accounted : AccountedResults[k].success }

RECURSIVE CookiesCollectedIn(_)
CookiesCollectedIn(ks) ==
  IF ks = {} THEN 0
  ELSE LET k == CHOOSE x \in ks : TRUE
       IN  AccountedResults[k].cookies_collected + CookiesCollectedIn(ks \ {k})

RECURSIVE CountsSum(_, _)
CountsSum(counts, cs) ==
  IF cs = {} THEN 0
  ELSE LET c == CHOOSE x \in cs : TRUE
       IN  counts[c] + CountsSum(counts, cs \ {c})

\* C40: after every iteration of the loop, and in the summary returned, the
\* counters account for exactly the domains processed so far:
\* successful_crawls + failed_crawls is their number (total_domains at the
\* return), the counts of cmp_types sum to successful_crawls (each being the
\* number of successful crawls of that CMP), total_cookies is the sum of
\* cookies_collected over the successful crawls, and
\* domains_with_consent_data, the number of successful crawls with
\* declarations, is at most successful_crawls.
C40_SummaryAccountsForProcessedDomains ==
  /\ Accounted <= Len(saves)
  /\ stats.total_domains = Len(cd_domains)
  /\ stats.successful_crawls = Cardinality(Successes)
  /\ stats.failed_crawls = Accounted - Cardinality(Successes)
  /\ stats.successful_crawls + stats.failed_crawls = Accounted
  /\ cdpc = "done" =>
       stats.successful_crawls + stats.failed_crawls = stats.total_domains
  /\ DOMAIN stats.cmp_types = { AccountedResults[k].cmp_type : k \in Successes }
  /\ \A c \in DOMAIN stats.cmp_types :
       stats.cmp_types[c]
         = Cardinality({ k \in Successes : AccountedResults[k].cmp_type = c })
  /\ CountsSum(stats.cmp_types, DOMAIN stats.cmp_types) = stats.successful_crawls
  /\ stats.total_cookies = CookiesCollectedIn(Successes)
  /\ stats.domains_with_consent_data
       = Cardinality({ k \in Successes : AccountedResults[k].consent_data # <<>> })
  /\ stats.domains_with_consent_data <= stats.successful_crawls

\* C40 witness: the summary of three domains is returned, with one failed
\* crawl and two successful crawls of one CMP, one of which found cookies.
C40_Witness ==
  /\ cdpc = "done"
  /\ stats.total_domains = 3
  /\ stats.failed_crawls = 1
  /\ stats.successful_crawls = 2
  /\ \E c \in DOMAIN stats.cmp_types : stats.cmp_types[c] = 2
  /\ stats.total_cookies > 0
  /\ stats.domains_with_consent_data > 0

\* the summary of three domains is returned with fewer domains with
\* declarations than successful crawls, and two CMPs counted
SummaryOfMixedCrawls ==
  /\ cdpc = "done"
  /\ stats.successful_crawls = 3
  /\ stats.domains_with_consent_data = 2
  /\ Cardinality(DOMAIN stats.cmp_types) = 3

=============================================================================
